---- MODULE Spec2Model ----
(***************************************************************************)
(* Model of the Morty Express decision engines.                            *)
(*                                                                         *)
(* Each script of the repository is one strategy driver: it starts an      *)
(* episode, then loops "choose (planet, count) -> sendThroughPortal ->     *)
(* update beliefs" until the citadel is empty.  A behaviour of this model  *)
(* runs exactly one driver, selected by the variable strategy:             *)
(*   "hh"  hot-hand + contextual bandit + Purge-phase engine               *)
(*   "us"  UltimateStrategy (src/src/ultimate-strategy.ts)                 *)
(*   "dt"  discounted Thompson runner (src/src/frequency-analysis.ts)      *)
(*   "os"  OptimizedStrategy (src/src/optimized-strategy.ts)               *)
(*   "wp"  WavePredictionStrategy                                          *)
(*   "ep"  EmpiricalStrategy (src/src/analyze-all-planets.ts)              *)
(*                                                                         *)
(* Spec runs the first four drivers from the start of an episode.          *)
(* PhaseSpec follows the phase arithmetic of the cyclic channel: the wave  *)
(* driver from the start, the hot-hand engine and the pattern driver from  *)
(* mid-episode states.  BreachSpec runs the hot-hand engine and            *)
(* UltimateStrategy against a service that breaks its contract.            *)
(*                                                                         *)
(* One loop iteration is one action: the code is single threaded and the   *)
(* only suspension point is the await of the portal call, which either     *)
(* resolves (the iteration completes) or rejects (the iteration is         *)
(* abandoned where the exception propagates to).                           *)
(*                                                                         *)
(* The outcome service is external.  It is modelled as the claims assume   *)
(* it: a resolved commit subtracts the submitted count from the citadel,   *)
(* advances steps_taken by one and reports an arbitrary survived flag.     *)
(* Accumulators that only feed console output (saved / lost tallies) are   *)
(* not part of the state.                                                  *)
(***************************************************************************)
EXTENDS Integers, Sequences, FiniteSets, TLC

(* ---------- bounds of the model ---------- *)
\* An episode is explored in one of two regimes.  In the "full" regime the
\* service hands out TotalUnits units and every outcome sequence is explored.
\* In the "limited" regime the episode is long (LongUnits units, 1000 in
\* production) and the service reports at most MaxLosses failed trips.
TotalUnits == 9
LongUnits == 64
MaxLosses == 2
\* The discounted Thompson runner keeps real-valued decayed counts, so every
\* path is a new state: it is explored in the limited regime only, over
\* DTUnits units, with at most MaxUpsets iterations whose draws are not all
\* of the lowest rank.
DTUnits == 12
MaxUpsets == 1
\* Thompson draws are abstracted to ranks 0..MaxDraw
MaxDraw == 1
\* The wave driver runs WaveUnits units, three per trip, with at most
\* WaveLosses failed trips; the same cap on failed trips applies to the
\* pattern driver, which is followed for EpUnits units after its sampling
\* trips.  The hot-hand engine is followed for MidUnits units around a crest.
WaveUnits == 390
\* A service that breaks its contract counts up to MaxSkew units more than
\* the batch it was asked to send.
MaxSkew == 1
WaveLosses == 1
EpUnits == 30
MidUnits == 1
\* The sampler study calls betaSample with shapes from -MaxShape/2 to
\* MaxShape/2, in steps of one half.
MaxShape == 4
\* The streak table study records up to MaxObservations outcomes.
MaxObservations == 10
\* The scripted episode has ScenarioUnits units and its scripted planet
\* changes regime after RegimeChangeAfter commits.
ScenarioUnits == 20
RegimeChangeAfter == 10
\* The detection study runs the wave driver for DetectUnits units, three per
\* trip; the service fails at most DetectLosses trips, all of them on Purge.
DetectUnits == 183
DetectLosses == 3
\* The zone study runs OptimizedStrategy for ZoneUnits units, three per
\* trip, with at most ZoneUpsets iterations that report a failed trip or
\* take an exploration branch.
ZoneUnits == 454
ZoneUpsets == 1

(* ---------- planets (types.ts enum Planet) ---------- *)
ON_A_COB == 0
CRONENBERG == 1
PURGE == 2
ALL_PLANETS == <<ON_A_COB, CRONENBERG, PURGE>>
PlanetSet == {ON_A_COB, CRONENBERG, PURGE}

\* JavaScript null for a Planet / a phase offset
NULL == -1
\* JavaScript -Infinity (initial lastPurgeProbe)
NegInfinity == -1000000

Max(a, b) == IF a >= b THEN a ELSE b
Min(a, b) == IF a <= b THEN a ELSE b
Abs(a) == IF a >= 0 THEN a ELSE -a

\* JavaScript % : remainder with the sign of the dividend
JsRem(a, n) == IF a >= 0 THEN a % n ELSE -((-a) % n)

\* Math.round on the rational num/den (den > 0, num >= 0): floor(x + 1/2)
RoundDiv(num, den) == (2 * num + den) \div (2 * den)

(* ---------- hot-hand engine: tunables ---------- *)
PURGE_PERIOD == 200
PURGE_WINDOW_TIGHT == 2
PURGE_WINDOW_PROBE == 4
PURGE_PROBE_INTERVAL == 25
X3AtConfidenceOne == 2 - 1
CONF_FOR_X3 == 2
SanityAtFive == 6 - 1
MAX_STREAK_BEFORE_SANITY == 6
WARM_PRIOR == [a |-> 7, b |-> 3]
COLD_PRIOR == [a |-> 3, b |-> 7]
\* STAY_THRESHOLD = 0.72, kept in hundredths
STAY_THRESHOLD == 72

(* ---------- hot-hand engine: helpers ---------- *)
clampMortiesIgnoringBudget(n, remaining) == Max(1, Min(3, n))
clampMorties(n, remaining) == Max(1, Min(3, Min(n, remaining)))

mod(a, n) == JsRem(JsRem(a, n) + n, n)

distMod(a, b, n) ==
  LET d == Abs(mod(a - b, n)) IN Min(d, n - d)

\* betaMean(a, b) >= pct/100, compared exactly on the rationals
betaMeanAtLeast(a, b, pct) == 100 * a >= pct * (a + b)

mkPlanetState ==
  [afterWin |-> [a |-> WARM_PRIOR.a, b |-> WARM_PRIOR.b],
   afterLoss |-> [a |-> COLD_PRIOR.a, b |-> COLD_PRIOR.b],
   lastOutcome |-> "null",
   streakWins |-> 0]

VARIABLES
  strategy,          \* which driver this behaviour runs
  regime,            \* "full" or "limited" exploration of the environment
  losses,            \* limited regime: failed trips reported so far
  upsets,            \* limited regime: iterations whose random draws were not all of rank 0
  pc,                \* "run" in the loop, "done" after it, "error" once a commit rejected
  service,           \* the outcome service: morties_in_citadel, steps_taken
  mortiesRemaining,  \* driver local: budget known to the engine
  currentPlanet,     \* driver local: planet of the previous step, NULL before the first
  step,              \* hh: step counter
  S,                 \* hh: StateMap, one PlanetState per planet
  purgeOffset,       \* hh: phase offset of Purge, NULL when unknown
  purgeConfidence,   \* hh: confidence in purgeOffset
  lastPurgeProbe,    \* hh: step of the last phase probe
  planetHistory,     \* us: PlanetHistory per planet
  tripNumber,        \* us: trip counter
  citadel,           \* dt: budget known to the runner
  steps,             \* dt: loop iteration counter
  PLANETS,           \* dt: decayed successes / failures per planet
  probeIdx,          \* dt: index of the next planet of the probe round in progress
  planetStats,       \* os, wp, ep: PlanetStats per planet
  osCurrentStep,     \* os: currentStep of run()
  wpCurrentStep,     \* wp, ep: currentStep of run()
  purgeHistory,      \* wp, ep: the Purge trips recorded, oldest first
  wavePhaseOffset,   \* wp: detected wave phase offset, NULL when unknown
  phaseOffset,       \* ep: detected pattern offset, NULL when unknown
  shapeA,            \* sampler study: first shape parameter of betaSample, in halves
  shapeB,            \* sampler study: second shape parameter of betaSample, in halves
  sampled,           \* sampler study: what the betaSample call produced
  outstanding,       \* portal calls submitted and not yet settled
  channelA,          \* scripted episode: the planet whose outcomes are scripted
  last,              \* history: the latest commit submitted
  sumBatches         \* history: sum of the batch sizes of resolved commits

vars == <<strategy, regime, losses, pc, service, mortiesRemaining, currentPlanet,
          step, S, purgeOffset, purgeConfidence, lastPurgeProbe,
          planetHistory, tripNumber, citadel, steps, PLANETS, probeIdx,
          planetStats, osCurrentStep, wpCurrentStep, purgeHistory,
          wavePhaseOffset, phaseOffset, shapeA, shapeB, sampled, outstanding,
          channelA, upsets, last, sumBatches>>

hhVars == <<step, S, purgeOffset, purgeConfidence, lastPurgeProbe>>
usVars == <<planetHistory, tripNumber>>
dtVars == <<citadel, steps, PLANETS, probeIdx>>
osVars == <<planetStats, osCurrentStep>>
wpVars == <<wpCurrentStep, purgeHistory, wavePhaseOffset, phaseOffset>>
studyVars == <<shapeA, shapeB, sampled, outstanding, channelA>>
envVars == <<strategy, regime>>

\* outcomes the service may still report
Survivals == IF regime = "full" \/ losses < MaxLosses THEN BOOLEAN ELSE {TRUE}
countLoss(survived) ==
  IF regime \in {"limited", "zones"} /\ ~survived THEN losses + 1 ELSE losses

\* random draws the limited regime may still take
Draws == [PlanetSet -> 0..MaxDraw]
calm == [p \in PlanetSet |-> 0]
DrawsLeft == IF regime = "full" \/ upsets < MaxUpsets THEN Draws ELSE {calm}
countUpset(draw) == IF regime = "limited" /\ draw # calm THEN upsets + 1 ELSE upsets
\* the zone study counts the iterations that took the exploration branch
countExploration(explore) == IF regime = "zones" /\ explore THEN upsets + 1 ELSE upsets

\* betaSample has not been called
NoSample == [threw |-> FALSE, x |-> "none", y |-> "none"]

\* the variables of the studies, where no study runs
noStudy ==
  /\ shapeA = 2 /\ shapeB = 2    \* shapes 1.0, never sampled
  /\ sampled = NoSample
  /\ outstanding = 0
  /\ channelA = NULL

NoCommit ==
  [planet |-> NULL, count |-> 0, requested |-> 0, rule |-> "none", t |-> 0,
   remaining |-> 0, prev |-> NULL, resolved |-> FALSE, survived |-> FALSE,
   sanityRun |-> 0]

(* ---------- the outcome service ---------- *)
startEpisode(units) == [morties_in_citadel |-> units, steps_taken |-> 0]

\* response of a resolved commit of count units
sendThroughPortal(svc, count) ==
  [morties_in_citadel |-> svc.morties_in_citadel - count,
   steps_taken |-> svc.steps_taken + 1]

(* ---------- hot-hand engine: Purge phase predicates ---------- *)
inTightPurge(t) ==
  /\ purgeOffset # NULL
  /\ distMod(mod(t, PURGE_PERIOD), purgeOffset, PURGE_PERIOD) <= PURGE_WINDOW_TIGHT

inProbePurge(t) ==
  /\ purgeOffset # NULL
  /\ distMod(mod(t, PURGE_PERIOD), purgeOffset, PURGE_PERIOD) <= PURGE_WINDOW_PROBE

needPurgeProbeOffStreak(t) ==
  /\ purgeOffset = NULL
  /\ (lastPurgeProbe = NegInfinity \/ t - lastPurgeProbe >= PURGE_PROBE_INTERVAL)
  /\ (currentPlanet = NULL \/ S[currentPlanet].lastOutcome # "true")

needPurgeProbeAfterFirst(t) ==
  /\ purgeOffset = NULL
  /\ lastPurgeProbe # NegInfinity
  /\ t - lastPurgeProbe >= PURGE_PROBE_INTERVAL

needPurgeProbe(t) ==
  /\ purgeOffset = NULL
  /\ (lastPurgeProbe = NegInfinity \/ t - lastPurgeProbe >= PURGE_PROBE_INTERVAL)

(* ---------- hot-hand engine: policy ---------- *)
\* candidates.map(draw).sort((x, y) => y.draw - x.draw)[0].p : the sort is
\* stable, so among equal draws the earlier candidate stays first
thompsonPickAscending(cands, draw) ==
  LET best == CHOOSE i \in 1..Len(cands) :
                /\ \A j \in 1..Len(cands) : draw[cands[j]] >= draw[cands[i]]
                /\ \A j \in 1..(i - 1) : draw[cands[j]] > draw[cands[i]]
  IN cands[best]

thompsonPick(cands, draw) ==
  LET best == CHOOSE i \in 1..Len(cands) :
                /\ \A j \in 1..Len(cands) : draw[cands[j]] <= draw[cands[i]]
                /\ \A j \in 1..(i - 1) : draw[cands[j]] < draw[cands[i]]
  IN cands[best]

everyPlanet(p) == ALL_PLANETS
otherPlanets(p) == SelectSeq(ALL_PLANETS, LAMBDA q : q # p)

\* the if / else-if chain that picks planet and requested count for trip t
hhChoose(t, draw) ==
  IF inTightPurge(t)
    THEN [planet |-> PURGE,
          count |-> IF purgeConfidence >= CONF_FOR_X3 THEN 3 ELSE 1,
          rule |-> "crest"]
  ELSE IF needPurgeProbe(t)
    THEN [planet |-> PURGE, count |-> 1, rule |-> "phaseProbe"]
  ELSE IF currentPlanet = NULL
    THEN [planet |-> ON_A_COB, count |-> 1, rule |-> "initial"]
  ELSE
    LET st == S[currentPlanet] IN
    IF st.lastOutcome = "true"
      THEN LET meanStayOk == betaMeanAtLeast(st.afterWin.a, st.afterWin.b, STAY_THRESHOLD)
               mustProbe == st.streakWins >= MAX_STREAK_BEFORE_SANITY /\ ~inProbePurge(t)
           IN IF meanStayOk /\ ~mustProbe
                THEN [planet |-> currentPlanet, count |-> 3, rule |-> "stayHot"]
                ELSE [planet |-> currentPlanet, count |-> 1, rule |-> "sanity"]
      ELSE [planet |-> thompsonPick(otherPlanets(currentPlanet), draw),
            count |-> 1, rule |-> "thompson"]

\* betaSample is called for the two candidates, and only in the after-LOSS
\* branch; elsewhere the iteration takes no random input
hhSamples(t) ==
  /\ ~inTightPurge(t) /\ ~needPurgeProbe(t)
  /\ currentPlanet # NULL
  /\ S[currentPlanet].lastOutcome # "true"

hhDraws ==
  IF hhSamples(step + 1)
    THEN LET candidates == otherPlanets(currentPlanet)
         IN [{candidates[i] : i \in 1..Len(candidates)} -> 0..MaxDraw]
    ELSE {calm}

(* ---------- hot-hand engine: learning updates ---------- *)
bumpSwapped(beta, survived) ==
  IF survived THEN [beta EXCEPT !.b = @ + 1] ELSE [beta EXCEPT !.a = @ + 1]

bumpPenalising(beta, survived) ==
  IF survived THEN [beta EXCEPT !.a = @ + 1] ELSE [beta EXCEPT !.a = @ - 1]

bump(beta, survived) ==
  IF survived THEN [beta EXCEPT !.a = @ + 1] ELSE [beta EXCEPT !.b = @ + 1]

hhLearnAfterOutcome(st, survived) ==
  LET counted ==
        IF survived
          THEN [st EXCEPT !.afterWin = bump(@, survived)]
          ELSE [st EXCEPT !.afterLoss = bump(@, survived)]
  IN [counted EXCEPT
        !.streakWins = IF survived
                         THEN (IF st.lastOutcome = "true" THEN @ + 1 ELSE 1)
                         ELSE 0,
        !.lastOutcome = IF survived THEN "true" ELSE "false"]

hhLearn(st, survived) ==
  LET counted ==
        IF st.lastOutcome = "true"
          THEN [st EXCEPT !.afterWin = bump(@, survived)]
          ELSE [st EXCEPT !.afterLoss = bump(@, survived)]
  IN [counted EXCEPT
        !.streakWins = IF survived
                         THEN (IF st.lastOutcome = "true" THEN @ + 1 ELSE 1)
                         ELSE 0,
        !.lastOutcome = IF survived THEN "true" ELSE "false"]

hhRecenterKeepingOffset(t, survived) ==
  LET phase == mod(t, PURGE_PERIOD) IN
  IF survived
    THEN IF purgeOffset = NULL
           THEN [offset |-> phase, confidence |-> 1]
         ELSE IF inProbePurge(t)
           THEN [offset |-> JsRem(RoundDiv(purgeOffset * 3 + phase, 4), PURGE_PERIOD),
                 confidence |-> Min(4, purgeConfidence + 1)]
         ELSE [offset |-> purgeOffset, confidence |-> purgeConfidence]
    ELSE LET hit == inProbePurge(t)
             conf == IF hit THEN Max(0, purgeConfidence - 1) ELSE purgeConfidence
             delta == mod(phase - purgeOffset, PURGE_PERIOD)
             off == IF hit
                      THEN mod(purgeOffset + (IF 2 * delta > PURGE_PERIOD THEN -1 ELSE 1),
                               PURGE_PERIOD)
                      ELSE purgeOffset
         IN [offset |-> off, confidence |-> conf]

\* Purge recentering / confidence, for a resolved commit on Purge at trip t
hhRecenter(t, survived) ==
  LET phase == mod(t, PURGE_PERIOD) IN
  IF survived
    THEN IF purgeOffset = NULL
           THEN [offset |-> phase, confidence |-> 1]
         ELSE IF inProbePurge(t)
           THEN [offset |-> JsRem(RoundDiv(purgeOffset * 3 + phase, 4), PURGE_PERIOD),
                 confidence |-> Min(4, purgeConfidence + 1)]
         ELSE [offset |-> purgeOffset, confidence |-> purgeConfidence]
    ELSE LET hit == inProbePurge(t)
             conf == IF hit THEN Max(0, purgeConfidence - 1) ELSE purgeConfidence
             delta == mod(phase - purgeOffset, PURGE_PERIOD)
             off == IF hit
                      THEN mod(purgeOffset + (IF 2 * delta > PURGE_PERIOD THEN -1 ELSE 1),
                               PURGE_PERIOD)
                      ELSE purgeOffset
         IN [offset |-> IF conf = 0 THEN NULL ELSE off, confidence |-> conf]

recentersEveryPlanet(planet) == TRUE

\* if (planet === Planet.PURGE): the commits that update the Purge phase model
recentersPurge(planet) == planet = PURGE

(* ---------- hot-hand engine: one iteration of the while loop ---------- *)
\* history: the engine rides a win streak that has reached the sanity cap
\* with a stay estimate at or above the threshold
hhCapped ==
  /\ currentPlanet # NULL
  /\ S[currentPlanet].lastOutcome = "true"
  /\ S[currentPlanet].streakWins >= MAX_STREAK_BEFORE_SANITY
  /\ betaMeanAtLeast(S[currentPlanet].afterWin.a, S[currentPlanet].afterWin.b,
                     STAY_THRESHOLD)

\* the commit resolves
hhStep(survived, draw) ==
  /\ strategy = "hh" /\ pc = "run" /\ mortiesRemaining > 0
  /\ LET t == step + 1
         ch == hhChoose(t, draw)
         sendCount == clampMorties(ch.count, mortiesRemaining)
         res == sendThroughPortal(service, sendCount)
         pm == IF recentersPurge(ch.planet)
                 THEN hhRecenter(t, survived)
                 ELSE [offset |-> purgeOffset, confidence |-> purgeConfidence]
     IN /\ lastPurgeProbe' = IF ch.rule = "phaseProbe" THEN t ELSE lastPurgeProbe
        /\ service' = res
        /\ S' = [S EXCEPT ![ch.planet] = hhLearn(@, survived)]
        /\ purgeOffset' = pm.offset
        /\ purgeConfidence' = pm.confidence
        /\ mortiesRemaining' = res.morties_in_citadel
        /\ step' = res.steps_taken
        /\ currentPlanet' = ch.planet
        /\ sumBatches' = sumBatches + sendCount
        /\ last' = [planet |-> ch.planet, count |-> sendCount, requested |-> ch.count,
                    rule |-> ch.rule, t |-> t, remaining |-> mortiesRemaining,
                    prev |-> currentPlanet, resolved |-> TRUE, survived |-> survived,
                    sanityRun |-> IF survived /\ hhCapped /\ ch.rule = "sanity"
                                    THEN last.sanityRun + 1 ELSE 0]
  /\ losses' = countLoss(survived)
  /\ UNCHANGED <<envVars, studyVars, wpVars, upsets, pc, usVars, dtVars, osVars>>

\* the commit rejects: run() rejects, the .catch handler exits the process
hhStepFail(draw) ==
  /\ strategy = "hh" /\ pc = "run" /\ mortiesRemaining > 0
  /\ LET t == step + 1
         ch == hhChoose(t, draw)
         sendCount == clampMorties(ch.count, mortiesRemaining)
     IN /\ lastPurgeProbe' = IF ch.rule = "phaseProbe" THEN t ELSE lastPurgeProbe
        /\ step' = t
        /\ last' = [planet |-> ch.planet, count |-> sendCount, requested |-> ch.count,
                    rule |-> ch.rule, t |-> t, remaining |-> mortiesRemaining,
                    prev |-> currentPlanet, resolved |-> FALSE, survived |-> FALSE,
                    sanityRun |-> 0]
  /\ pc' = "error"
  /\ UNCHANGED <<envVars, studyVars, wpVars, losses, service, mortiesRemaining, currentPlanet, S,
                 purgeOffset, purgeConfidence, sumBatches, upsets, usVars, dtVars, osVars>>

hhFinishOneEarly ==
  /\ strategy = "hh" /\ pc = "run" /\ mortiesRemaining <= 1
  /\ pc' = "done"
  /\ UNCHANGED <<envVars, wpVars, studyVars, losses, upsets, service, mortiesRemaining,
                 currentPlanet, hhVars, last, sumBatches, usVars, dtVars, osVars>>

\* the loop condition fails: final status is fetched and reported
hhFinish ==
  /\ strategy = "hh" /\ pc = "run" /\ mortiesRemaining <= 0
  /\ pc' = "done"
  /\ UNCHANGED <<envVars, studyVars, wpVars, losses, upsets, service, mortiesRemaining, currentPlanet,
                 hhVars, last, sumBatches, usVars, dtVars, osVars>>

(* ---------- UltimateStrategy ---------- *)
\* probabilities are kept in units of 1/300, so that the table values
\* (hundredths) and k/n for n in 3..5 are integers
P(hundredths) == 3 * hundredths

mkPlanetHistory ==
  [lastResult |-> "null", recentResults |-> <<>>,
   consecutiveWins |-> 0, consecutiveLosses |-> 0]

updateHistoryKeepingWins(h, survived) ==
  LET pushed == Append(h.recentResults, survived)
  IN [lastResult |-> IF survived THEN "true" ELSE "false",
      recentResults |-> IF Len(pushed) > 5 THEN Tail(pushed) ELSE pushed,
      consecutiveWins |-> IF survived THEN h.consecutiveWins + 1 ELSE h.consecutiveWins,
      consecutiveLosses |-> IF survived THEN 0 ELSE h.consecutiveLosses + 1]

updateHistoryKeepingSix(h, survived) ==
  LET pushed == Append(h.recentResults, survived)
  IN [lastResult |-> IF survived THEN "true" ELSE "false",
      recentResults |-> IF Len(pushed) > 6 THEN Tail(pushed) ELSE pushed,
      consecutiveWins |-> IF survived THEN h.consecutiveWins + 1 ELSE 0,
      consecutiveLosses |-> IF survived THEN 0 ELSE h.consecutiveLosses + 1]

updateHistory(h, survived) ==
  LET pushed == Append(h.recentResults, survived)
  IN [lastResult |-> IF survived THEN "true" ELSE "false",
      recentResults |-> IF Len(pushed) > 5 THEN Tail(pushed) ELSE pushed,
      consecutiveWins |-> IF survived THEN h.consecutiveWins + 1 ELSE 0,
      consecutiveLosses |-> IF survived THEN 0 ELSE h.consecutiveLosses + 1]

predictPurgeRate ==
  LET rr == planetHistory[PURGE].recentResults
      recentSuccesses == Cardinality({i \in 1..Len(rr) : rr[i]})
  IN IF Len(rr) >= 3 THEN (recentSuccesses * 300) \div Len(rr) ELSE P(50)

hotHandProbabilityDipAtFour(history) ==
  IF history.lastResult = "null" THEN P(50)
  ELSE IF history.lastResult = "true"
    THEN LET streak == history.consecutiveWins IN
         IF streak = 1 THEN P(75)
         ELSE IF streak = 2 THEN P(80)
         ELSE IF streak = 3 THEN P(88)
         ELSE IF streak = 4 THEN P(81)
         ELSE P(93)
    ELSE LET streak == history.consecutiveLosses IN
         IF streak = 1 THEN P(27)
         ELSE IF streak = 2 THEN P(20)
         ELSE IF streak = 3 THEN P(15)
         ELSE P(10)

hotHandProbabilityLowAfterOne(history) ==
  IF history.lastResult = "null" THEN P(50)
  ELSE IF history.lastResult = "true"
    THEN LET streak == history.consecutiveWins IN
         IF streak = 1 THEN P(72)
         ELSE IF streak = 2 THEN P(80)
         ELSE IF streak = 3 THEN P(88)
         ELSE IF streak = 4 THEN P(91)
         ELSE P(93)
    ELSE LET streak == history.consecutiveLosses IN
         IF streak = 1 THEN P(27)
         ELSE IF streak = 2 THEN P(20)
         ELSE IF streak = 3 THEN P(15)
         ELSE P(10)

\* the table of getHotHandProbability, for one PlanetHistory
hotHandProbability(history) ==
  IF history.lastResult = "null" THEN P(50)
  ELSE IF history.lastResult = "true"
    THEN LET streak == history.consecutiveWins IN
         IF streak = 1 THEN P(75)
         ELSE IF streak = 2 THEN P(80)
         ELSE IF streak = 3 THEN P(88)
         ELSE IF streak = 4 THEN P(91)
         ELSE P(93)
    ELSE LET streak == history.consecutiveLosses IN
         IF streak = 1 THEN P(27)
         ELSE IF streak = 2 THEN P(20)
         ELSE IF streak = 3 THEN P(15)
         ELSE P(10)

getHotHandProbability(planet) == hotHandProbability(planetHistory[planet])

\* expected success rate per planet
usScores ==
  [planet \in PlanetSet |->
     IF planet = PURGE /\ planetHistory[PURGE].lastResult = "null"
       THEN predictPurgeRate
       ELSE getHotHandProbability(planet)]

\* "2. Find best planet": first planet, in Map insertion order, whose score
\* is strictly above every earlier one (and above the initial bestScore 0)
RECURSIVE usBest(_, _, _)
usBest(i, bestPlanet, bestScore) ==
  IF i > Len(ALL_PLANETS) THEN [planet |-> bestPlanet, score |-> bestScore]
  ELSE IF usScores[ALL_PLANETS[i]] > bestScore
    THEN usBest(i + 1, ALL_PLANETS[i], usScores[ALL_PLANETS[i]])
    ELSE usBest(i + 1, bestPlanet, bestScore)

\* const maxCount = Math.min(3, mortiesRemaining)
usMaxCountUncapped(remaining) == 3
usMaxCount(remaining) == Min(3, remaining)

purgeSampleDueEveryTwenty(cur, trip) ==
  /\ trip % 20 = 0 /\ cur # PURGE
  /\ planetHistory[PURGE].consecutiveWins = 0

\* "Phase 2: Sample Purge periodically": the condition of the rule
purgeSampleDue(cur, trip) ==
  /\ trip % 25 = 0 /\ cur # PURGE
  /\ planetHistory[PURGE].consecutiveWins = 0

\* choosePlanetAndCount for the trip numbered trip (tripNumber after ++)
choosePlanetAndCount(cur, remaining, trip) ==
  LET maxCount == usMaxCount(remaining) IN
  IF trip <= 3
    THEN [planet |-> IF trip = 1 THEN ON_A_COB
                     ELSE IF trip = 2 THEN CRONENBERG ELSE PURGE,
          count |-> 1, rule |-> "coldStart"]
  ELSE IF purgeSampleDue(cur, trip)
    THEN [planet |-> PURGE, count |-> 1, rule |-> "purgeSample"]
  ELSE IF /\ cur # NULL
          /\ planetHistory[cur].lastResult = "true"
          /\ usScores[cur] > P(70)
    THEN LET currentScore == usScores[cur]
             currentHistory == planetHistory[cur]
         IN [planet |-> cur,
             count |-> IF currentScore >= P(85) /\ currentHistory.consecutiveWins >= 3
                         THEN maxCount
                       ELSE IF currentScore >= P(75) THEN Min(2, maxCount)
                       ELSE 1,
             rule |-> "hotHand"]
  ELSE LET best == usBest(1, ON_A_COB, 0)
       IN [planet |-> best.planet,
           count |-> IF best.score >= P(80) THEN maxCount
                     ELSE IF best.score >= P(60) THEN Min(2, maxCount)
                     ELSE 1,
           rule |-> "switch"]

\* one iteration of the while loop of UltimateStrategy.run; the commit resolves
usStep(survived) ==
  /\ strategy = "us" /\ pc = "run" /\ mortiesRemaining > 0
  /\ LET trip == tripNumber + 1
         ch == choosePlanetAndCount(currentPlanet, mortiesRemaining, trip)
         res == sendThroughPortal(service, ch.count)
     IN /\ tripNumber' = trip
        /\ service' = res
        /\ planetHistory' = [planetHistory EXCEPT ![ch.planet] = updateHistory(@, survived)]
        /\ mortiesRemaining' = res.morties_in_citadel
        /\ currentPlanet' = ch.planet
        /\ sumBatches' = sumBatches + ch.count
        /\ last' = [planet |-> ch.planet, count |-> ch.count, requested |-> ch.count,
                    rule |-> ch.rule, t |-> trip, remaining |-> mortiesRemaining,
                    prev |-> currentPlanet, resolved |-> TRUE, survived |-> survived]
  /\ losses' = countLoss(survived)
  /\ UNCHANGED <<envVars, studyVars, wpVars, upsets, pc, hhVars, dtVars, osVars>>

\* the commit rejects: run() and main() reject, nothing catches
usStepFail ==
  /\ strategy = "us" /\ pc = "run" /\ mortiesRemaining > 0
  /\ LET trip == tripNumber + 1
         ch == choosePlanetAndCount(currentPlanet, mortiesRemaining, trip)
     IN /\ tripNumber' = trip
        /\ last' = [planet |-> ch.planet, count |-> ch.count, requested |-> ch.count,
                    rule |-> ch.rule, t |-> trip, remaining |-> mortiesRemaining,
                    prev |-> currentPlanet, resolved |-> FALSE, survived |-> FALSE]
  /\ pc' = "error"
  /\ UNCHANGED <<envVars, studyVars, wpVars, losses, service, mortiesRemaining, currentPlanet,
                 planetHistory, sumBatches, upsets, hhVars, dtVars, osVars>>

usFinish ==
  /\ strategy = "us" /\ pc = "run" /\ mortiesRemaining <= 0
  /\ pc' = "done"
  /\ UNCHANGED <<envVars, studyVars, wpVars, losses, service, mortiesRemaining, currentPlanet,
                 usVars, hhVars, last, sumBatches, upsets, dtVars, osVars>>

(* ---------- discounted Thompson runner ---------- *)
\* decayed counts are fixed-point numbers with SCALE units per 1.0; a product
\* is truncated to the grid
SCALE == 1000
\* forgetting factors 0.90, 0.95, 0.995 in units of 1/SCALE
GAMMA == [p \in PlanetSet |-> IF p = ON_A_COB THEN 900
                              ELSE IF p = CRONENBERG THEN 950 ELSE 995]
\* TEAM_SUCCESS_THRESHOLD = 0.88 in units of 1/SCALE
TEAM_SUCCESS_THRESHOLD == 880
PROBE_INTERVAL == 10

mkPLANETS == [p \in PlanetSet |-> [succ |-> 0, fail |-> 0]]

decaySuccessesOnly(ps) ==
  [p \in PlanetSet |-> [succ |-> (ps[p].succ * GAMMA[p]) \div SCALE,
                        fail |-> ps[p].fail]]

decayAll(ps) ==
  [p \in PlanetSet |-> [succ |-> (ps[p].succ * GAMMA[p]) \div SCALE,
                        fail |-> (ps[p].fail * GAMMA[p]) \div SCALE]]

\* thompsonDraw: the shape parameters handed to betaSample for one planet
dtAlpha(ps) == ps.succ + SCALE
dtBeta(ps) == ps.fail + SCALE

\* a Beta draw of rank r, in units of 1/SCALE
thetaOf(r) == Min(SCALE, 400 + 200 * r)

\* thompsonDraw: best starts at {idx: 0, val: -1} and moves on a strictly larger draw
RECURSIVE dtBest(_, _, _, _)
dtBest(i, idx, val, theta) ==
  IF i > Len(ALL_PLANETS) THEN [pick |-> idx, theta |-> val]
  ELSE IF theta[ALL_PLANETS[i]] > val
    THEN dtBest(i + 1, ALL_PLANETS[i], theta[ALL_PLANETS[i]], theta)
    ELSE dtBest(i + 1, idx, val, theta)

thompsonDraw(draw) ==
  dtBest(1, ON_A_COB, -1, [p \in PlanetSet |-> thetaOf(draw[p])])

\* 1 - (1 - p)^n > threshold, on the rationals (p and threshold in 1/SCALE)
teamSuccessAbove(p, threshold) ==
  SCALE * SCALE * SCALE - (SCALE - p) * (SCALE - p) * (SCALE - p)
    > threshold * SCALE * SCALE

observe(ps, i, survived) ==
  IF survived THEN [ps EXCEPT ![i].succ = @ + SCALE]
              ELSE [ps EXCEPT ![i].fail = @ + SCALE]

\* a loop iteration that is not a probe round; the commit resolves
dtThompson(survived, draw) ==
  /\ strategy = "dt" /\ pc = "run" /\ citadel > 0
  /\ (steps + 1) % PROBE_INTERVAL # 0
  /\ LET td == thompsonDraw(draw)
         send3 == teamSuccessAbove(td.theta, TEAM_SUCCESS_THRESHOLD) /\ citadel >= 3
         morty_count == IF send3 THEN 3 ELSE Min(1, citadel)
         resp == sendThroughPortal(service, morty_count)
     IN /\ steps' = steps + 1
        /\ service' = resp
        /\ PLANETS' = observe(decayAll(PLANETS), td.pick, survived)
        /\ citadel' = resp.morties_in_citadel
        /\ sumBatches' = sumBatches + morty_count
        /\ last' = [planet |-> td.pick, count |-> morty_count, requested |-> morty_count,
                    rule |-> "thompsonDraw", t |-> steps + 1, remaining |-> citadel,
                    prev |-> NULL, resolved |-> TRUE, survived |-> survived,
                    theta |-> td.theta]
  /\ losses' = countLoss(survived)
  /\ upsets' = countUpset(draw)
  /\ UNCHANGED <<envVars, studyVars, wpVars, pc, probeIdx, mortiesRemaining, currentPlanet, hhVars, usVars, osVars>>

\* the commit rejects after decayAll(): main() rejects, the .catch handler exits
dtThompsonFail(draw) ==
  /\ strategy = "dt" /\ pc = "run" /\ citadel > 0
  /\ (steps + 1) % PROBE_INTERVAL # 0
  /\ LET td == thompsonDraw(draw)
         send3 == teamSuccessAbove(td.theta, TEAM_SUCCESS_THRESHOLD) /\ citadel >= 3
         morty_count == IF send3 THEN 3 ELSE Min(1, citadel)
     IN /\ steps' = steps + 1
        /\ PLANETS' = decayAll(PLANETS)
        /\ last' = [planet |-> td.pick, count |-> morty_count, requested |-> morty_count,
                    rule |-> "thompsonDraw", t |-> steps + 1, remaining |-> citadel,
                    prev |-> NULL, resolved |-> FALSE, survived |-> FALSE,
                    theta |-> td.theta]
  /\ pc' = "error"
  /\ upsets' = countUpset(draw)
  /\ UNCHANGED <<envVars, studyVars, wpVars, losses, service, citadel, probeIdx, sumBatches,
                 mortiesRemaining, currentPlanet, hhVars, usVars, osVars>>

\* the probe round starts when the incremented step counter is a multiple of
\* PROBE_INTERVAL and continues, one commit at a time, while pc = "probe"
dtProbeStarts == pc = "run" /\ citadel > 0 /\ (steps + 1) % PROBE_INTERVAL = 0

\* one commit of the probe round resolves
dtProbe(survived) ==
  /\ strategy = "dt"
  /\ dtProbeStarts \/ pc = "probe"
  /\ LET i == IF pc = "probe" THEN probeIdx ELSE 0
         count == Min(1, citadel)
         resp == sendThroughPortal(service, count)
         ends == i + 1 >= Len(ALL_PLANETS) \/ resp.morties_in_citadel <= 0
     IN /\ steps' = IF pc = "probe" THEN steps ELSE steps + 1
        /\ service' = resp
        /\ PLANETS' = observe(decayAll(PLANETS), ALL_PLANETS[i + 1], survived)
        /\ citadel' = resp.morties_in_citadel
        /\ pc' = IF ends THEN "run" ELSE "probe"
        /\ probeIdx' = IF ends THEN 0 ELSE i + 1
        /\ sumBatches' = sumBatches + count
        /\ last' = [planet |-> ALL_PLANETS[i + 1], count |-> count, requested |-> count,
                    rule |-> "probeRound", t |-> steps', remaining |-> citadel,
                    prev |-> NULL, resolved |-> TRUE, survived |-> survived]
  /\ losses' = countLoss(survived)
  /\ UNCHANGED <<envVars, studyVars, wpVars, upsets, mortiesRemaining, currentPlanet, hhVars, usVars, osVars>>

\* one commit of the probe round rejects after decayAll()
dtProbeFail ==
  /\ strategy = "dt"
  /\ dtProbeStarts \/ pc = "probe"
  /\ LET i == IF pc = "probe" THEN probeIdx ELSE 0
         count == Min(1, citadel)
     IN /\ steps' = IF pc = "probe" THEN steps ELSE steps + 1
        /\ PLANETS' = decayAll(PLANETS)
        /\ last' = [planet |-> ALL_PLANETS[i + 1], count |-> count, requested |-> count,
                    rule |-> "probeRound", t |-> steps', remaining |-> citadel,
                    prev |-> NULL, resolved |-> FALSE, survived |-> FALSE]
  /\ pc' = "error"
  /\ UNCHANGED <<envVars, studyVars, wpVars, losses, upsets, service, citadel, probeIdx, sumBatches,
                 mortiesRemaining, currentPlanet, hhVars, usVars, osVars>>

dtFinish ==
  /\ strategy = "dt" /\ pc = "run" /\ citadel <= 0
  /\ pc' = "done"
  /\ UNCHANGED <<envVars, studyVars, wpVars, losses, upsets, service, dtVars, last, sumBatches,
                 mortiesRemaining, currentPlanet, hhVars, usVars, osVars>>

(* ---------- OptimizedStrategy ---------- *)
mkPlanetStats == [attempts |-> 0, successes |-> 0, failures |-> 0]

\* successRate is successes / attempts (0 before the first attempt); rates
\* are compared on the rationals
updateStats(stats, survived) ==
  [attempts |-> stats.attempts + 1,
   successes |-> IF survived THEN stats.successes + 1 ELSE stats.successes,
   failures |-> IF survived THEN stats.failures ELSE stats.failures + 1]

\* x.successRate >= y.successRate
rateAtLeast(x, y) ==
  LET xd == IF x.attempts = 0 THEN 1 ELSE x.attempts
      yd == IF y.attempts = 0 THEN 1 ELSE y.attempts
  IN x.successes * yd >= y.successes * xd

getPurgePlanetPhaseAsDocumented(tripNumberArg) ==
  LET position == JsRem(tripNumberArg, 150) IN
  IF position <= 50 THEN "GOLD"
  ELSE IF position <= 100 THEN "MEDIUM"
  ELSE "DEATH"

getPurgePlanetPhase(tripNumberArg) ==
  LET position == JsRem(tripNumberArg, 150) IN
  IF position < 50 THEN "GOLD"
  ELSE IF position < 100 THEN "MEDIUM"
  ELSE "DEATH"

\* 80% exploitation: the best planet among those attempted, in Map order,
\* starting from ON_A_COB with bestRate -1
RECURSIVE osBest(_, _, _)
osBest(i, bestPlanet, best) ==
  IF i > Len(ALL_PLANETS) THEN bestPlanet
  ELSE LET stats == planetStats[ALL_PLANETS[i]] IN
       IF /\ stats.attempts > 0
          /\ (best = NULL \/ ~rateAtLeast(planetStats[best], stats))
         THEN osBest(i + 1, ALL_PLANETS[i], ALL_PLANETS[i])
         ELSE osBest(i + 1, bestPlanet, best)

\* choosePlanet; explore says whether the first Math.random() falls under the
\* exploration probability, roll is the planet the second one selects
osChoosePlanet(currentStep, explore, roll) ==
  LET phase == getPurgePlanetPhase(currentStep) IN
  IF phase = "GOLD" THEN PURGE
  ELSE IF phase = "DEATH"
    THEN IF planetStats[ON_A_COB].attempts = 0 THEN ON_A_COB
         ELSE IF planetStats[CRONENBERG].attempts = 0 THEN CRONENBERG
         ELSE IF explore THEN (IF roll = ON_A_COB THEN ON_A_COB ELSE CRONENBERG)
         ELSE IF rateAtLeast(planetStats[ON_A_COB], planetStats[CRONENBERG])
           THEN ON_A_COB ELSE CRONENBERG
  ELSE IF explore THEN roll
  ELSE osBest(1, ON_A_COB, NULL)

\* one iteration of the while loop of OptimizedStrategy.run; the commit resolves
osStep(survived, explore, roll) ==
  /\ strategy = "os" /\ pc = "run" /\ mortiesRemaining > 0
  /\ LET planet == osChoosePlanet(osCurrentStep, explore, roll)
         mortyCount == Min(3, mortiesRemaining)
         result == sendThroughPortal(service, mortyCount)
     IN /\ service' = result
        /\ planetStats' = [planetStats EXCEPT ![planet] = updateStats(@, survived)]
        /\ mortiesRemaining' = result.morties_in_citadel
        /\ osCurrentStep' = result.steps_taken
        /\ sumBatches' = sumBatches + mortyCount
        /\ last' = [planet |-> planet, count |-> mortyCount, requested |-> mortyCount,
                    rule |-> getPurgePlanetPhase(osCurrentStep), t |-> osCurrentStep,
                    remaining |-> mortiesRemaining, prev |-> NULL,
                    resolved |-> TRUE, survived |-> survived]
  /\ losses' = countLoss(survived)
  /\ upsets' = countExploration(explore)
  /\ UNCHANGED <<envVars, studyVars, wpVars, pc, currentPlanet, hhVars, usVars, dtVars>>

\* the commit rejects: the inner catch logs and breaks out of the loop, the
\* final status is then fetched and reported
osStepFail(explore, roll) ==
  /\ strategy = "os" /\ pc = "run" /\ mortiesRemaining > 0
  /\ LET planet == osChoosePlanet(osCurrentStep, explore, roll)
         mortyCount == Min(3, mortiesRemaining)
     IN last' = [planet |-> planet, count |-> mortyCount, requested |-> mortyCount,
                 rule |-> getPurgePlanetPhase(osCurrentStep), t |-> osCurrentStep,
                 remaining |-> mortiesRemaining, prev |-> NULL,
                 resolved |-> FALSE, survived |-> FALSE]
  /\ pc' = "error"
  /\ upsets' = countExploration(explore)
  /\ UNCHANGED <<envVars, studyVars, wpVars, losses, service, mortiesRemaining, currentPlanet,
                 osVars, sumBatches, hhVars, usVars, dtVars>>

osFinish ==
  /\ strategy = "os" /\ pc = "run" /\ mortiesRemaining <= 0
  /\ pc' = "done"
  /\ UNCHANGED <<envVars, studyVars, wpVars, losses, upsets, service, mortiesRemaining, currentPlanet,
                 osVars, last, sumBatches, hhVars, usVars, dtVars>>

(* ---------- WavePredictionStrategy ---------- *)
\* null for a phase offset that may be negative: a value no offset takes
NoOffset == NegInfinity
WAVE_PERIOD == 200

\* PlanetStats; successRate is kept as the fraction it was computed from
mkWaveStats == [attempts |-> 0, successes |-> 0]

\* stats.successRate as num / den: 0.5 until the first attempt
successRate(stats) ==
  IF stats.attempts = 0 THEN [num |-> 1, den |-> 2]
  ELSE [num |-> stats.successes, den |-> stats.attempts]

\* cobStats.successRate >= cronStats.successRate ? ON_A_COB : CRONENBERG
safePlanet ==
  LET cob == successRate(planetStats[ON_A_COB])
      cron == successRate(planetStats[CRONENBERG])
  IN IF cob.num * cron.den >= cron.num * cob.den THEN ON_A_COB ELSE CRONENBERG

wpUpdateStats(stats, survived) ==
  [stats EXCEPT !.attempts = @ + 1,
                !.successes = IF survived THEN @ + 1 ELSE @]

\* number of survived trips among h[from..to]
RECURSIVE survivedIn(_, _, _)
survivedIn(h, from, to) ==
  IF from > to THEN 0
  ELSE (IF h[to].survived THEN 1 ELSE 0) + survivedIn(h, from, to - 1)

\* estimatePurgeRate() as successes / window
estimatePurgeRate(h) ==
  IF Len(h) = 0 THEN [num |-> 1, den |-> 2]
  ELSE LET windowSize == Min(10, Len(h))
       IN [num |-> survivedIn(h, Len(h) - windowSize + 1, Len(h)), den |-> windowSize]

detectPhaseOffset(h, currentTrip) ==
  IF Len(h) < 15 THEN NoOffset
  ELSE
    LET currentRate == estimatePurgeRate(h)
        earlyLen == Min(5, Len(h))
        early == survivedIn(h, 1, earlyLen)
        late == survivedIn(h, Len(h) - 4, Len(h))
        n1 == Len(h) \div 2
        n2 == Len(h) - n1
        first == survivedIn(h, 1, n1)
        second == survivedIn(h, n1 + 1, Len(h))
    IN IF 10 * currentRate.num > 7 * currentRate.den
         THEN (IF late * earlyLen > early * 5
                 THEN currentTrip - 190
                 ELSE currentTrip - 30)
       ELSE IF 10 * currentRate.num < 3 * currentRate.den
         THEN currentTrip - 120
       ELSE IF Len(h) >= 10 /\ 20 * second * n1 > 20 * first * n2 + 3 * n1 * n2
         THEN currentTrip - 160
       ELSE currentTrip - 80

\* round(1000 * sin(2 pi k / 200)) for k = 0..50
SinQuarter ==
  <<0, 31, 63, 94, 125, 156, 187, 218, 249, 279, 309, 339, 368, 397, 426, 454,
    482, 509, 536, 562, 588, 613, 637, 661, 685, 707, 729, 750, 771, 790, 809,
    827, 844, 861, 876, 891, 905, 918, 930, 941, 951, 960, 969, 976, 982, 988,
    992, 996, 998, 1000, 1000>>

\* Math.sin(2 pi x / WAVE_PERIOD) in thousandths, for any integer x
sinMilli(x) ==
  LET k == mod(x, WAVE_PERIOD)
      half == WAVE_PERIOD \div 2
      j == IF k >= half THEN k - half ELSE k
      q == IF j > half \div 2 THEN half - j ELSE j
      v == SinQuarter[q + 1]
  IN IF k >= half THEN -v ELSE v

\* const position = (trip - this.wavePhaseOffset) % this.WAVE_PERIOD
wavePosition(trip, offset) == JsRem(trip - offset, WAVE_PERIOD)

\* predictPurgeRate(trip) in millionths: 0.5 + 0.45 sin(..), clamped
wavePredictPurgeRate(trip, offset) ==
  IF offset = NoOffset THEN 500000
  ELSE LET position == wavePosition(trip, offset)
           predictedRate == 500000 + 450 * sinMilli(position - 70)
       IN Max(0, Min(1000000, predictedRate))

wpDetectFromTenSamples(step0) ==
  IF wavePhaseOffset = NoOffset /\ Len(purgeHistory) >= 10
    THEN step0 - 80
    ELSE wavePhaseOffset

\* "Phase 2: Detect wave phase if not yet done": the value wavePhaseOffset
\* holds afterwards
wpDetect(step0) ==
  IF wavePhaseOffset = NoOffset /\ Len(purgeHistory) >= 15
    THEN detectPhaseOffset(purgeHistory, step0)
    ELSE wavePhaseOffset

wpByPredictionIgnoringValley(predictedRate) ==
  IF predictedRate > 650000 THEN [planet |-> PURGE, rule |-> "peak"]
  ELSE IF predictedRate < 350000 THEN [planet |-> PURGE, rule |-> "valley"]
  ELSE [planet |-> safePlanet, rule |-> "middle"]

\* "Phase 3: Use prediction model": the planet for a predicted rate, in
\* millionths
wpByPrediction(predictedRate) ==
  IF predictedRate > 650000 THEN [planet |-> PURGE, rule |-> "peak"]
  ELSE IF predictedRate < 350000 THEN [planet |-> safePlanet, rule |-> "valley"]
  ELSE [planet |-> safePlanet, rule |-> "middle"]

\* choosePlanet(currentStep): the planet, the rule that chose it, and the
\* value wavePhaseOffset holds afterwards
wpChoosePlanet(step0) ==
  IF step0 < 30
    THEN [planet |-> IF step0 % 3 = 0 THEN PURGE
                     ELSE IF step0 % 3 = 1 THEN ON_A_COB ELSE CRONENBERG,
          rule |-> "sample", offset |-> wavePhaseOffset]
  ELSE
    LET offset == wpDetect(step0) IN
    IF offset # NoOffset
      THEN LET by == wpByPrediction(wavePredictPurgeRate(step0, offset))
           IN [planet |-> by.planet, rule |-> by.rule, offset |-> offset]
      ELSE LET purgeRate == estimatePurgeRate(purgeHistory)
           IN [planet |-> IF 10 * purgeRate.num > 7 * purgeRate.den
                            THEN PURGE ELSE safePlanet,
               rule |-> "fallback", offset |-> offset]

\* outcomes the service may still report to the wave and pattern drivers
WaveSurvivals == IF losses < WaveLosses THEN BOOLEAN ELSE {TRUE}

\* one iteration of the while loop of WavePredictionStrategy.run; the commit resolves
wpStep(survived) ==
  /\ strategy = "wp" /\ pc = "run" /\ mortiesRemaining > 0
  /\ LET ch == wpChoosePlanet(wpCurrentStep)
         mortyCount == Min(3, mortiesRemaining)
         res == sendThroughPortal(service, mortyCount)
     IN /\ wavePhaseOffset' = ch.offset
        /\ service' = res
        /\ planetStats' = [planetStats EXCEPT ![ch.planet] = wpUpdateStats(@, survived)]
        /\ purgeHistory' = IF ch.planet = PURGE
                             THEN Append(purgeHistory,
                                         [trip |-> wpCurrentStep, survived |-> survived])
                             ELSE purgeHistory
        /\ mortiesRemaining' = res.morties_in_citadel
        /\ wpCurrentStep' = res.steps_taken
        /\ sumBatches' = sumBatches + mortyCount
        /\ last' = [planet |-> ch.planet, count |-> mortyCount, requested |-> mortyCount,
                    rule |-> ch.rule, t |-> wpCurrentStep, remaining |-> mortiesRemaining,
                    prev |-> currentPlanet, resolved |-> TRUE, survived |-> survived]
  /\ losses' = IF survived THEN losses ELSE losses + 1
  /\ UNCHANGED <<envVars, studyVars, upsets, pc, currentPlanet, phaseOffset, osCurrentStep,
                 hhVars, usVars, dtVars>>

\* the commit rejects: the inner catch logs and breaks out of the loop
wpStepFail ==
  /\ strategy = "wp" /\ pc = "run" /\ mortiesRemaining > 0
  /\ LET ch == wpChoosePlanet(wpCurrentStep)
         mortyCount == Min(3, mortiesRemaining)
     IN /\ wavePhaseOffset' = ch.offset
        /\ last' = [planet |-> ch.planet, count |-> mortyCount, requested |-> mortyCount,
                    rule |-> ch.rule, t |-> wpCurrentStep, remaining |-> mortiesRemaining,
                    prev |-> currentPlanet, resolved |-> FALSE, survived |-> FALSE]
  /\ pc' = "error"
  /\ UNCHANGED <<envVars, studyVars, losses, upsets, service, mortiesRemaining, currentPlanet,
                 planetStats, purgeHistory, wpCurrentStep, phaseOffset, osCurrentStep,
                 sumBatches, hhVars, usVars, dtVars>>

\* the loop condition fails: final status is fetched and reported
wpFinish ==
  /\ strategy = "wp" /\ pc = "run" /\ mortiesRemaining <= 0
  /\ pc' = "done"
  /\ UNCHANGED <<envVars, studyVars, wpVars, losses, upsets, service, mortiesRemaining,
                 currentPlanet, hhVars, usVars, dtVars, osVars, last, sumBatches>>

(* ---------- EmpiricalStrategy ---------- *)
\* PURGE_PATTERN, in hundredths, one entry per 20-trip bucket
PURGE_PATTERN == <<88, 95, 90, 50, 38, 8, 0, 15, 33, 63>>
PATTERN_LENGTH == Len(PURGE_PATTERN)
BUCKET_SIZE == 20
\* the value of an array read outside 0..length-1
UNDEFINED == NegInfinity

\* Math.floor on the rational a / n (n > 0)
FloorDiv(a, n) == IF a >= 0 THEN a \div n ELSE -((-a + n - 1) \div n)

\* score of one candidate offset: -|observed - expectedRate|, as a fraction
\* over 100 * observed.den
matchScore(observed, offset) ==
  LET bucketIndex == FloorDiv(offset, BUCKET_SIZE) % PATTERN_LENGTH
      expectedRate == PURGE_PATTERN[bucketIndex + 1]
  IN -Abs(100 * observed.num - expectedRate * observed.den)

\* the for loop of detectPhase: bestOffset ends as the first offset whose
\* score is strictly above the score of every earlier one
bestMatch(observed) ==
  LET offsets == 0..(PATTERN_LENGTH * BUCKET_SIZE - 1)
  IN CHOOSE o \in offsets :
       /\ \A x \in offsets : matchScore(observed, x) <= matchScore(observed, o)
       /\ \A x \in 0..(o - 1) : matchScore(observed, x) < matchScore(observed, o)

detectPhase(h) ==
  IF Len(h) < 20 THEN 0
  ELSE bestMatch([num |-> survivedIn(h, 1, Len(h)), den |-> Len(h)])

\* const cyclePosition = adjustedTrip % (PATTERN_LENGTH * BUCKET_SIZE)
cyclePosition(trip, offset) ==
  JsRem(trip - offset, PATTERN_LENGTH * BUCKET_SIZE)

bucketIndexOf(trip, offset) ==
  FloorDiv(cyclePosition(trip, offset), BUCKET_SIZE)

\* predictPurgeRate(trip) in hundredths, UNDEFINED when the read of
\* PURGE_PATTERN misses the array
epPredictPurgeRate(trip, offset) ==
  IF offset = NULL THEN 50
  ELSE LET bucketIndex == bucketIndexOf(trip, offset)
       IN IF bucketIndex \in 0..(PATTERN_LENGTH - 1)
            THEN PURGE_PATTERN[bucketIndex + 1]
            ELSE UNDEFINED

\* choosePlanet(currentStep): the planet, the rule that chose it, and the
\* value phaseOffset holds afterwards (Phase 2 assigns it)
epChoosePlanet(step0) ==
  IF step0 < 40
    THEN [planet |-> IF step0 % 2 = 0 THEN PURGE ELSE safePlanet,
          rule |-> "sample", offset |-> phaseOffset]
  ELSE
    LET offset == IF phaseOffset = NULL /\ Len(purgeHistory) >= 20
                    THEN detectPhase(purgeHistory)
                    ELSE phaseOffset
        predicted == epPredictPurgeRate(step0, offset)
    IN IF offset # NULL /\ predicted # UNDEFINED /\ predicted > 60
         THEN [planet |-> PURGE, rule |-> "predicted", offset |-> offset]
         ELSE [planet |-> safePlanet, rule |-> "safe", offset |-> offset]

\* one iteration of the while loop of EmpiricalStrategy.run; the commit resolves
epStep(survived) ==
  /\ strategy = "ep" /\ pc = "run" /\ mortiesRemaining > 0
  /\ LET ch == epChoosePlanet(wpCurrentStep)
         mortyCount == Min(3, mortiesRemaining)
         res == sendThroughPortal(service, mortyCount)
     IN /\ phaseOffset' = ch.offset
        /\ service' = res
        /\ planetStats' = [planetStats EXCEPT ![ch.planet] = wpUpdateStats(@, survived)]
        /\ purgeHistory' = IF ch.planet = PURGE
                             THEN Append(purgeHistory,
                                         [trip |-> wpCurrentStep, survived |-> survived])
                             ELSE purgeHistory
        /\ mortiesRemaining' = res.morties_in_citadel
        /\ wpCurrentStep' = res.steps_taken
        /\ sumBatches' = sumBatches + mortyCount
        /\ last' = [planet |-> ch.planet, count |-> mortyCount, requested |-> mortyCount,
                    rule |-> ch.rule, t |-> wpCurrentStep, remaining |-> mortiesRemaining,
                    prev |-> currentPlanet, resolved |-> TRUE, survived |-> survived]
  /\ losses' = IF survived THEN losses ELSE losses + 1
  /\ UNCHANGED <<envVars, studyVars, upsets, pc, currentPlanet, wavePhaseOffset, osCurrentStep,
                 hhVars, usVars, dtVars>>

\* the commit rejects: the inner catch logs and breaks out of the loop
epStepFail ==
  /\ strategy = "ep" /\ pc = "run" /\ mortiesRemaining > 0
  /\ LET ch == epChoosePlanet(wpCurrentStep)
         mortyCount == Min(3, mortiesRemaining)
     IN /\ phaseOffset' = ch.offset
        /\ last' = [planet |-> ch.planet, count |-> mortyCount, requested |-> mortyCount,
                    rule |-> ch.rule, t |-> wpCurrentStep, remaining |-> mortiesRemaining,
                    prev |-> currentPlanet, resolved |-> FALSE, survived |-> FALSE]
  /\ pc' = "error"
  /\ UNCHANGED <<envVars, studyVars, losses, upsets, service, mortiesRemaining, currentPlanet,
                 planetStats, purgeHistory, wpCurrentStep, wavePhaseOffset, osCurrentStep,
                 sumBatches, hhVars, usVars, dtVars>>

\* the loop condition fails: final status is fetched and reported
epFinish ==
  /\ strategy = "ep" /\ pc = "run" /\ mortiesRemaining <= 0
  /\ pc' = "done"
  /\ UNCHANGED <<envVars, studyVars, wpVars, losses, upsets, service, mortiesRemaining,
                 currentPlanet, hhVars, usVars, dtVars, osVars, last, sumBatches>>

(* ---------- the episodes explored ---------- *)
\* the episodes: every driver in the limited regime, and in the full regime
\* the drivers whose state is a function of small counters
Episodes ==
  {<<"hh", "full">>, <<"us", "full">>, <<"os", "full">>,
   <<"hh", "limited">>, <<"us", "limited">>, <<"os", "limited">>,
   <<"dt", "limited">>}

units(s, r) ==
  IF r = "full" THEN TotalUnits
  ELSE IF s = "dt" THEN DTUnits ELSE LongUnits

Init ==
  /\ \E e \in Episodes : strategy = e[1] /\ regime = e[2]
  /\ losses = 0
  /\ upsets = 0
  /\ pc = "run"
  /\ service = startEpisode(units(strategy, regime))
  /\ mortiesRemaining = service.morties_in_citadel
  /\ currentPlanet = NULL
  /\ step = service.steps_taken
  /\ S = [p \in PlanetSet |-> mkPlanetState]
  /\ purgeOffset = NULL
  /\ purgeConfidence = 0
  /\ lastPurgeProbe = NegInfinity
  /\ planetHistory = [p \in PlanetSet |-> mkPlanetHistory]
  /\ tripNumber = 0
  /\ citadel = service.morties_in_citadel
  /\ steps = 0
  /\ PLANETS = mkPLANETS
  /\ probeIdx = 0
  /\ planetStats = [p \in PlanetSet |-> mkPlanetStats]
  /\ osCurrentStep = service.steps_taken
  /\ wpCurrentStep = 0
  /\ purgeHistory = <<>>
  /\ wavePhaseOffset = NoOffset
  /\ phaseOffset = NULL
  /\ noStudy
  /\ last = NoCommit
  /\ sumBatches = 0

Next ==
  \/ \E survived \in Survivals, draw \in hhDraws : hhStep(survived, draw)
  \/ \E draw \in hhDraws : hhStepFail(draw)
  \/ hhFinish
  \/ \E survived \in Survivals : usStep(survived)
  \/ usStepFail
  \/ usFinish
  \/ \E survived \in Survivals, draw \in DrawsLeft : dtThompson(survived, draw)
  \/ \E draw \in DrawsLeft : dtThompsonFail(draw)
  \/ \E survived \in Survivals : dtProbe(survived)
  \/ dtProbeFail
  \/ dtFinish
  \/ \E survived \in Survivals, explore \in BOOLEAN, roll \in PlanetSet :
        osStep(survived, explore, roll)
  \/ \E explore \in BOOLEAN, roll \in PlanetSet : osStepFail(explore, roll)
  \/ osFinish

Spec == Init /\ [][Next]_vars

(* ---------- the phase studies ---------- *)
\* A second family of episodes exercises the cyclic channel.  The wave
\* driver runs from the start of an episode.  The hot-hand engine and the
\* pattern driver are started mid-episode, where the phase arithmetic
\* happens: the hot-hand engine on Purge after a win, at any step and with
\* any Purge offset whose window is at most one step away; the pattern driver
\* after its 40 sampling trips, with any number of survived Purge samples.
idleDrivers ==
  /\ losses = 0
  /\ upsets = 0
  /\ pc = "run"
  /\ lastPurgeProbe = NegInfinity
  /\ planetHistory = [p \in PlanetSet |-> mkPlanetHistory]
  /\ tripNumber = 0
  /\ citadel = 0
  /\ steps = 0
  /\ PLANETS = mkPLANETS
  /\ probeIdx = 0
  /\ osCurrentStep = 0
  /\ last = NoCommit
  /\ sumBatches = 0

hhMidEpisode ==
  /\ strategy = "hh" /\ regime = "mid"
  /\ idleDrivers
  /\ step \in PURGE_PERIOD..(2 * PURGE_PERIOD - 1)
  /\ purgeOffset \in {o \in 0..(PURGE_PERIOD - 1) :
        distMod(mod(step + 1, PURGE_PERIOD), o, PURGE_PERIOD) <= PURGE_WINDOW_PROBE + 1}
  /\ purgeConfidence \in 1..4
  /\ service = [morties_in_citadel |-> MidUnits, steps_taken |-> step]
  /\ mortiesRemaining = service.morties_in_citadel
  /\ currentPlanet = PURGE
  /\ S = [p \in PlanetSet |->
            IF p = PURGE THEN hhLearn(mkPlanetState, TRUE) ELSE mkPlanetState]
  /\ planetStats = [p \in PlanetSet |-> mkPlanetStats]
  /\ wpCurrentStep = 0
  /\ purgeHistory = <<>>
  /\ wavePhaseOffset = NoOffset
  /\ phaseOffset = NULL

wpEpisode ==
  /\ strategy = "wp" /\ regime = "limited"
  /\ idleDrivers
  /\ service = startEpisode(WaveUnits)
  /\ mortiesRemaining = service.morties_in_citadel
  /\ wpCurrentStep = service.steps_taken
  /\ planetStats = [p \in PlanetSet |-> mkWaveStats]
  /\ purgeHistory = <<>>
  /\ wavePhaseOffset = NoOffset
  /\ phaseOffset = NULL
  /\ currentPlanet = NULL
  /\ step = 0
  /\ S = [p \in PlanetSet |-> mkPlanetState]
  /\ purgeOffset = NULL
  /\ purgeConfidence = 0

epMidEpisode ==
  /\ strategy = "ep" /\ regime = "mid"
  /\ idleDrivers
  /\ service = [morties_in_citadel |-> EpUnits, steps_taken |-> 40]
  /\ mortiesRemaining = service.morties_in_citadel
  /\ wpCurrentStep = service.steps_taken
  /\ \E k \in 0..20 :
        /\ purgeHistory = [i \in 1..20 |-> [trip |-> 2 * (i - 1), survived |-> i <= k]]
        /\ planetStats = [p \in PlanetSet |->
              IF p = PURGE THEN [attempts |-> 20, successes |-> k]
              ELSE IF p = ON_A_COB THEN [attempts |-> 20, successes |-> 20]
              ELSE mkWaveStats]
  /\ wavePhaseOffset = NoOffset
  /\ phaseOffset = NULL
  /\ currentPlanet = NULL
  /\ step = 0
  /\ S = [p \in PlanetSet |-> mkPlanetState]
  /\ purgeOffset = NULL
  /\ purgeConfidence = 0

PhaseInit == noStudy /\ (hhMidEpisode \/ wpEpisode \/ epMidEpisode)

PhaseNext ==
  \/ \E survived \in Survivals, draw \in hhDraws : hhStep(survived, draw)
  \/ \E draw \in hhDraws : hhStepFail(draw)
  \/ hhFinish
  \/ \E survived \in WaveSurvivals : wpStep(survived)
  \/ wpStepFail
  \/ wpFinish
  \/ \E survived \in WaveSurvivals : epStep(survived)
  \/ epStepFail
  \/ epFinish

PhaseSpec == PhaseInit /\ [][PhaseNext]_vars

(* ---------- the Gamma / Beta samplers ---------- *)
\* A shape parameter is kept in halves (shape 2 is 1.0).  A floating point
\* result is kept as its class: "zero", "pos" (positive and finite), "inf"
\* or "nan".  Math.random() returns "zero" (exactly 0) or "pos" (0 < u < 1).
FloatClasses == {"zero", "pos", "inf", "nan"}
Uniforms == {"zero", "pos"}

\* x * y on the classes
times(x, y) ==
  IF x = "nan" \/ y = "nan" THEN "nan"
  ELSE IF {x, y} = {"zero", "inf"} THEN "nan"
  ELSE IF x = "zero" \/ y = "zero" THEN "zero"
  ELSE IF x = "inf" \/ y = "inf" THEN "inf"
  ELSE "pos"

\* Math.pow(u, 1 / shape) for 0 <= u < 1: the exponent is positive for a
\* positive shape, +Infinity for shape 0 and negative for a negative shape
powInverse(u, shape) ==
  IF shape > 0 THEN u
  ELSE IF shape = 0 THEN "zero"
  ELSE IF u = "zero" THEN "inf" ELSE "pos"

\* the Marsaglia-Tsang loop (shape >= 1) returns d * v with d > 0 and v > 0
marsagliaTsang(shape) == "pos"

Threw == [threw |-> TRUE, value |-> "none"]
Returned(v) == [threw |-> FALSE, value |-> v]

\* gammaSample of the hot-hand engine; us are the uniforms of the boosts
RECURSIVE hhGammaSample(_, _)
hhGammaSample(k, us) ==
  IF k <= 0 THEN Threw
  ELSE IF k < 2
    THEN LET u == Head(us)
             boosted == hhGammaSample(2 + k, Tail(us))
         IN IF boosted.threw THEN Threw
            ELSE Returned(times(boosted.value, powInverse(u, k)))
  ELSE Returned(marsagliaTsang(k))

\* gammaSample of the discounted Thompson runner
RECURSIVE dtGammaSample(_, _)
dtGammaSample(shape, us) ==
  IF shape < 2
    THEN LET u == Head(us)
             boosted == dtGammaSample(2 + shape, Tail(us))
         IN IF boosted.threw THEN Threw
            ELSE Returned(times(boosted.value, powInverse(u, shape)))
  ELSE Returned(marsagliaTsang(shape))

\* betaSample: x / (x + y) of two Gamma draws, kept as the pair; a throw of
\* either draw propagates
hhBetaSample(a, b, usx, usy) ==
  LET x == hhGammaSample(a, usx) IN
  IF x.threw THEN [threw |-> TRUE, x |-> "none", y |-> "none"]
  ELSE LET y == hhGammaSample(b, usy) IN
       IF y.threw THEN [threw |-> TRUE, x |-> "none", y |-> "none"]
       ELSE [threw |-> FALSE, x |-> x.value, y |-> y.value]

dtBetaSample(alpha, beta, usx, usy) ==
  LET x == dtGammaSample(alpha, usx) IN
  IF x.threw THEN [threw |-> TRUE, x |-> "none", y |-> "none"]
  ELSE LET y == dtGammaSample(beta, usy) IN
       IF y.threw THEN [threw |-> TRUE, x |-> "none", y |-> "none"]
       ELSE [threw |-> FALSE, x |-> x.value, y |-> y.value]

(* ---------- the sampler study ---------- *)
\* betaSample is called once with shape parameters drawn from
\* -MaxShape/2 .. MaxShape/2; a call draws at most BoostDepth uniforms per
\* Gamma draw
BoostDepth == (MaxShape + 3) \div 2
UniformRuns == [1..BoostDepth -> Uniforms]

nonSampleVars ==
  <<strategy, regime, losses, pc, service, mortiesRemaining, currentPlanet,
    step, S, purgeOffset, purgeConfidence, lastPurgeProbe,
    planetHistory, tripNumber, citadel, steps, PLANETS, probeIdx,
    planetStats, osCurrentStep, wpCurrentStep, purgeHistory,
    wavePhaseOffset, phaseOffset, shapeA, shapeB, outstanding,
    channelA, upsets, last, sumBatches>>

hhBetaSampleCall(usx, usy) ==
  /\ strategy = "hhSampler" /\ sampled = NoSample
  /\ sampled' = hhBetaSample(shapeA, shapeB, usx, usy)
  /\ UNCHANGED nonSampleVars

dtBetaSampleCall(usx, usy) ==
  /\ strategy = "dtSampler" /\ sampled = NoSample
  /\ sampled' = dtBetaSample(shapeA, shapeB, usx, usy)
  /\ UNCHANGED nonSampleVars

\* the engines' variables, where no engine runs
idleEngines ==
  /\ service = startEpisode(0)
  /\ mortiesRemaining = 0
  /\ currentPlanet = NULL
  /\ step = 0
  /\ S = [p \in PlanetSet |-> mkPlanetState]
  /\ purgeOffset = NULL
  /\ purgeConfidence = 0
  /\ planetStats = [p \in PlanetSet |-> mkPlanetStats]
  /\ wpCurrentStep = 0
  /\ purgeHistory = <<>>
  /\ wavePhaseOffset = NoOffset
  /\ phaseOffset = NULL

SamplerInit ==
  /\ strategy \in {"hhSampler", "dtSampler"} /\ regime = "study"
  /\ idleDrivers /\ idleEngines
  /\ shapeA \in (-MaxShape)..MaxShape
  /\ shapeB \in (-MaxShape)..MaxShape
  /\ sampled = NoSample
  /\ outstanding = 0
  /\ channelA = NULL

SamplerNext ==
  \/ \E usx \in UniformRuns, usy \in UniformRuns : hhBetaSampleCall(usx, usy)
  \/ \E usx \in UniformRuns, usy \in UniformRuns : dtBetaSampleCall(usx, usy)

SamplerSpec == SamplerInit /\ [][SamplerNext]_vars

(* ---------- the loops at the grain of the await ---------- *)
\* The loop iterations above are split where the code suspends: an
\* iteration runs from the loop test to the portal call it submits, and the
\* rest of it runs when the promise of that call settles.  pc = "await" (or
\* "awaitProbe" inside a probe round) while the call is pending.
otherStudyVars == <<shapeA, shapeB, sampled, channelA>>

\* the loop goes on to its next iteration only from the loop test, which it
\* reaches after the awaited call has settled
loopTestWithoutAwait == pc \in {"run", "await"}
loopTest == pc = "run"

\* hot-hand engine: loop test, step++, choice, sendThroughPortal submitted
hhSubmit(draw) ==
  /\ strategy = "hh" /\ loopTest /\ mortiesRemaining > 0
  /\ LET t == step + 1
         ch == hhChoose(t, draw)
         sendCount == clampMorties(ch.count, mortiesRemaining)
     IN /\ lastPurgeProbe' = IF ch.rule = "phaseProbe" THEN t ELSE lastPurgeProbe
        /\ step' = t
        /\ last' = [planet |-> ch.planet, count |-> sendCount, requested |-> ch.count,
                    rule |-> ch.rule, t |-> t, remaining |-> mortiesRemaining,
                    prev |-> currentPlanet, resolved |-> FALSE, survived |-> FALSE,
                    sanityRun |-> 0]
  /\ outstanding' = outstanding + 1
  /\ pc' = "await"
  /\ UNCHANGED <<envVars, wpVars, otherStudyVars, losses, upsets, service,
                 mortiesRemaining, currentPlanet, S, purgeOffset, purgeConfidence,
                 sumBatches, usVars, dtVars, osVars>>

\* the call resolves: learning updates, Purge recentering, log & advance
hhSettle(survived) ==
  /\ strategy = "hh" /\ pc = "await"
  /\ LET t == last.t
         res == sendThroughPortal(service, last.count)
         pm == IF recentersPurge(last.planet)
                 THEN hhRecenter(t, survived)
                 ELSE [offset |-> purgeOffset, confidence |-> purgeConfidence]
     IN /\ service' = res
        /\ S' = [S EXCEPT ![last.planet] = hhLearn(@, survived)]
        /\ purgeOffset' = pm.offset
        /\ purgeConfidence' = pm.confidence
        /\ mortiesRemaining' = res.morties_in_citadel
        /\ step' = res.steps_taken
        /\ currentPlanet' = last.planet
        /\ sumBatches' = sumBatches + last.count
        /\ last' = [last EXCEPT !.resolved = TRUE, !.survived = survived]
  /\ losses' = countLoss(survived)
  /\ outstanding' = outstanding - 1
  /\ pc' = "run"
  /\ UNCHANGED <<envVars, wpVars, otherStudyVars, upsets, lastPurgeProbe,
                 usVars, dtVars, osVars>>

\* the call rejects: run() rejects, the .catch handler exits the process
hhReject ==
  /\ strategy = "hh" /\ pc = "await"
  /\ outstanding' = outstanding - 1
  /\ pc' = "error"
  /\ UNCHANGED <<envVars, wpVars, otherStudyVars, losses, upsets, service,
                 mortiesRemaining, currentPlanet, hhVars, last, sumBatches,
                 usVars, dtVars, osVars>>

\* discounted Thompson runner: loop test, steps += 1, thompsonDraw,
\* decayAll, sendThroughPortal submitted
dtThompsonSubmit(draw) ==
  /\ strategy = "dt" /\ loopTest /\ citadel > 0
  /\ (steps + 1) % PROBE_INTERVAL # 0
  /\ LET td == thompsonDraw(draw)
         send3 == teamSuccessAbove(td.theta, TEAM_SUCCESS_THRESHOLD) /\ citadel >= 3
         morty_count == IF send3 THEN 3 ELSE Min(1, citadel)
     IN /\ steps' = steps + 1
        /\ PLANETS' = decayAll(PLANETS)
        /\ last' = [planet |-> td.pick, count |-> morty_count, requested |-> morty_count,
                    rule |-> "thompsonDraw", t |-> steps + 1, remaining |-> citadel,
                    prev |-> NULL, resolved |-> FALSE, survived |-> FALSE,
                    theta |-> td.theta]
  /\ upsets' = countUpset(draw)
  /\ outstanding' = outstanding + 1
  /\ pc' = "await"
  /\ UNCHANGED <<envVars, wpVars, otherStudyVars, losses, service, citadel, probeIdx,
                 sumBatches, mortiesRemaining, currentPlanet, hhVars, usVars, osVars>>

\* one commit of the probe round is submitted
dtProbeSubmit ==
  /\ strategy = "dt"
  /\ (loopTest /\ citadel > 0 /\ (steps + 1) % PROBE_INTERVAL = 0) \/ pc = "probe"
  /\ LET i == IF pc = "probe" THEN probeIdx ELSE 0
         count == Min(1, citadel)
     IN /\ steps' = IF pc = "probe" THEN steps ELSE steps + 1
        /\ PLANETS' = decayAll(PLANETS)
        /\ probeIdx' = i
        /\ last' = [planet |-> ALL_PLANETS[i + 1], count |-> count, requested |-> count,
                    rule |-> "probeRound", t |-> steps', remaining |-> citadel,
                    prev |-> NULL, resolved |-> FALSE, survived |-> FALSE]
  /\ outstanding' = outstanding + 1
  /\ pc' = "awaitProbe"
  /\ UNCHANGED <<envVars, wpVars, otherStudyVars, losses, upsets, service, citadel,
                 sumBatches, mortiesRemaining, currentPlanet, hhVars, usVars, osVars>>

\* the call resolves: the outcome is counted for the planet of the call
dtSettle(survived) ==
  /\ strategy = "dt" /\ pc \in {"await", "awaitProbe"}
  /\ LET resp == sendThroughPortal(service, last.count)
         ends == probeIdx + 1 >= Len(ALL_PLANETS) \/ resp.morties_in_citadel <= 0
     IN /\ service' = resp
        /\ PLANETS' = observe(PLANETS, last.planet, survived)
        /\ citadel' = resp.morties_in_citadel
        /\ pc' = IF pc = "awaitProbe" /\ ~ends THEN "probe" ELSE "run"
        /\ probeIdx' = IF pc = "awaitProbe" /\ ~ends THEN probeIdx + 1 ELSE 0
        /\ sumBatches' = sumBatches + last.count
        /\ last' = [last EXCEPT !.resolved = TRUE, !.survived = survived]
  /\ losses' = countLoss(survived)
  /\ outstanding' = outstanding - 1
  /\ UNCHANGED <<envVars, wpVars, otherStudyVars, upsets, steps,
                 mortiesRemaining, currentPlanet, hhVars, usVars, osVars>>

\* the call rejects: main() rejects, the .catch handler exits
dtReject ==
  /\ strategy = "dt" /\ pc \in {"await", "awaitProbe"}
  /\ outstanding' = outstanding - 1
  /\ pc' = "error"
  /\ UNCHANGED <<envVars, wpVars, otherStudyVars, losses, upsets, service,
                 mortiesRemaining, currentPlanet, hhVars, dtVars, last, sumBatches,
                 usVars, osVars>>

AwaitInit ==
  /\ Init
  /\ <<strategy, regime>> \in {<<"hh", "full">>, <<"dt", "limited">>}

AwaitNext ==
  \/ \E draw \in hhDraws : hhSubmit(draw)
  \/ \E survived \in Survivals : hhSettle(survived)
  \/ hhReject
  \/ hhFinish
  \/ \E draw \in DrawsLeft : dtThompsonSubmit(draw)
  \/ dtProbeSubmit
  \/ \E survived \in Survivals : dtSettle(survived)
  \/ dtReject
  \/ dtFinish

AwaitSpec == AwaitInit /\ [][AwaitNext]_vars

(* ---------- a service that never fails ---------- *)
\* The hot-hand engine and UltimateStrategy against a service that resolves
\* every commit.  The loop is the only thing the process does, so an
\* iteration that can run does run.
LiveInit ==
  /\ Init
  /\ regime = "full" /\ strategy \in {"hh", "us"}

LiveNext ==
  \/ \E survived \in Survivals, draw \in hhDraws : hhStep(survived, draw)
  \/ hhFinish
  \/ \E survived \in Survivals : usStep(survived)
  \/ usFinish

LiveSpec == LiveInit /\ [][LiveNext]_vars /\ WF_vars(LiveNext)

(* ---------- the streak table study ---------- *)
\* UltimateStrategy records outcomes for two planets in any order, without
\* the policy choosing where they come from: every history of at most
\* MaxObservations outcomes is built by updateHistory.
TablePlanets == {ON_A_COB, CRONENBERG}

\* this.updateHistory(chosenPlanet, result.survived)
usRecord(planet, survived) ==
  /\ strategy = "usTable" /\ tripNumber < MaxObservations
  /\ tripNumber' = tripNumber + 1
  /\ planetHistory' = [planetHistory EXCEPT ![planet] = updateHistory(@, survived)]
  /\ UNCHANGED <<envVars, wpVars, studyVars, losses, upsets, pc, service,
                 mortiesRemaining, currentPlanet, hhVars, dtVars, osVars,
                 last, sumBatches>>

StreakInit ==
  /\ strategy = "usTable" /\ regime = "study"
  /\ idleDrivers /\ idleEngines /\ noStudy

StreakNext ==
  \E planet \in TablePlanets, survived \in BOOLEAN : usRecord(planet, survived)

StreakSpec == StreakInit /\ [][StreakNext]_vars

(* ---------- a scripted episode ---------- *)
\* The hot-hand engine and UltimateStrategy run an episode of ScenarioUnits
\* units in which the outcomes of one planet, channelA, are scripted: its
\* first RegimeChangeAfter commits survive and every later one dies.  The
\* outcomes of the other two planets are arbitrary and no commit rejects.
\* observations the hot-hand engine has folded in for a planet
hhObservations(p) ==
  S[p].afterWin.a + S[p].afterWin.b + S[p].afterLoss.a + S[p].afterLoss.b
    - (WARM_PRIOR.a + WARM_PRIOR.b + COLD_PRIOR.a + COLD_PRIOR.b)

\* commits resolved on channelA so far; UltimateStrategy keeps no count, but
\* under the script it is the win streak until the first failure
commitsOnA ==
  IF strategy = "hh" THEN hhObservations(channelA)
  ELSE IF planetHistory[channelA].lastResult = "false" THEN RegimeChangeAfter
  ELSE planetHistory[channelA].consecutiveWins

\* the scripted service reports survived for a commit on planet
scripted(planet, survived) ==
  planet = channelA => (survived <=> commitsOnA < RegimeChangeAfter)

ScenarioInit ==
  /\ strategy \in {"hh", "us"} /\ regime = "script"
  /\ channelA \in PlanetSet
  /\ idleDrivers
  /\ service = startEpisode(ScenarioUnits)
  /\ mortiesRemaining = service.morties_in_citadel
  /\ currentPlanet = NULL
  /\ step = service.steps_taken
  /\ S = [p \in PlanetSet |-> mkPlanetState]
  /\ purgeOffset = NULL
  /\ purgeConfidence = 0
  /\ planetStats = [p \in PlanetSet |-> mkPlanetStats]
  /\ wpCurrentStep = 0
  /\ purgeHistory = <<>>
  /\ wavePhaseOffset = NoOffset
  /\ phaseOffset = NULL
  /\ shapeA = 2 /\ shapeB = 2
  /\ sampled = NoSample
  /\ outstanding = 0

ScenarioNext ==
  \/ \E survived \in BOOLEAN, draw \in hhDraws :
        /\ scripted(hhChoose(step + 1, draw).planet, survived)
        /\ hhStep(survived, draw)
  \/ hhFinish
  \/ \E survived \in BOOLEAN :
        /\ scripted(choosePlanetAndCount(currentPlanet, mortiesRemaining,
                                         tripNumber + 1).planet, survived)
        /\ usStep(survived)
  \/ usFinish

ScenarioSpec == ScenarioInit /\ [][ScenarioNext]_vars

(* ---------- the detection study ---------- *)
\* The wave driver from the start of an episode of a little more than 60
\* trips.  The two safe planets never fail; Purge fails on any of its trips,
\* up to DetectLosses of them.
DetectInit ==
  /\ strategy = "wp" /\ regime = "detect"
  /\ idleDrivers
  /\ noStudy
  /\ service = startEpisode(DetectUnits)
  /\ mortiesRemaining = service.morties_in_citadel
  /\ wpCurrentStep = service.steps_taken
  /\ planetStats = [p \in PlanetSet |-> mkWaveStats]
  /\ purgeHistory = <<>>
  /\ wavePhaseOffset = NoOffset
  /\ phaseOffset = NULL
  /\ currentPlanet = NULL
  /\ step = 0
  /\ S = [p \in PlanetSet |-> mkPlanetState]
  /\ purgeOffset = NULL
  /\ purgeConfidence = 0

DetectSurvivals ==
  IF wpChoosePlanet(wpCurrentStep).planet = PURGE /\ losses < DetectLosses
    THEN BOOLEAN ELSE {TRUE}

DetectNext ==
  \/ \E survived \in DetectSurvivals : wpStep(survived)
  \/ wpStepFail
  \/ wpFinish

DetectSpec == DetectInit /\ [][DetectNext]_vars /\ WF_vars(DetectNext)

(* ---------- the zone study ---------- *)
\* OptimizedStrategy from the start of an episode that passes through the
\* GOLD, MEDIUM and DEATH zones and enters the second GOLD zone.
ZoneInit ==
  /\ strategy = "os" /\ regime = "zones"
  /\ idleDrivers
  /\ noStudy
  /\ service = startEpisode(ZoneUnits)
  /\ mortiesRemaining = service.morties_in_citadel
  /\ planetStats = [p \in PlanetSet |-> mkPlanetStats]
  /\ currentPlanet = NULL
  /\ step = 0
  /\ S = [p \in PlanetSet |-> mkPlanetState]
  /\ purgeOffset = NULL
  /\ purgeConfidence = 0
  /\ wpCurrentStep = 0
  /\ purgeHistory = <<>>
  /\ wavePhaseOffset = NoOffset
  /\ phaseOffset = NULL

ZoneSurvivals == IF losses + upsets < ZoneUpsets THEN BOOLEAN ELSE {TRUE}

\* Math.random() is called outside the GOLD zone only; the second call
\* follows an exploration
ZoneExplores ==
  IF getPurgePlanetPhase(osCurrentStep) # "GOLD" /\ losses + upsets < ZoneUpsets
    THEN BOOLEAN ELSE {FALSE}
ZoneRolls(explore) == IF explore THEN PlanetSet ELSE {ON_A_COB}

ZoneNext ==
  \/ \E survived \in ZoneSurvivals, explore \in ZoneExplores :
        \E roll \in ZoneRolls(explore) : osStep(survived, explore, roll)
  \/ \E explore \in ZoneExplores :
        \E roll \in ZoneRolls(explore) : osStepFail(explore, roll)
  \/ osFinish

ZoneSpec == ZoneInit /\ [][ZoneNext]_vars

(* ---------- a service that breaks its contract ---------- *)
\* the service's own count of the citadel agrees with the batches it resolved
serviceConsistent ==
  service.morties_in_citadel = units(strategy, regime) - sumBatches

\* The service takes more units than the batch requested of it: from then on
\* its responses report a citadel that is not the one the engine computed,
\* and that may be negative.  It happens at most once per episode.
serviceBreach ==
  /\ pc = "run" /\ mortiesRemaining > 0 /\ serviceConsistent
  /\ \E skew \in 1..MaxSkew :
        service' = [service EXCEPT !.morties_in_citadel = @ - skew]
  /\ UNCHANGED <<envVars, studyVars, wpVars, losses, upsets, pc, mortiesRemaining, currentPlanet,
                 hhVars, usVars, dtVars, osVars, last, sumBatches>>

BreachInit == Init /\ regime = "full" /\ strategy \in {"hh", "us"}

BreachNext ==
  \/ \E survived \in Survivals, draw \in hhDraws : hhStep(survived, draw)
  \/ \E draw \in hhDraws : hhStepFail(draw)
  \/ hhFinish
  \/ \E survived \in Survivals : usStep(survived)
  \/ usStepFail
  \/ usFinish
  \/ serviceBreach

BreachSpec == BreachInit /\ [][BreachNext]_vars

(***************************************************************************)
(* Properties                                                              *)
(***************************************************************************)
\* the budget known to the running driver
Remaining == IF strategy = "dt" THEN citadel ELSE mortiesRemaining

\* this step submits a commit (resolved or rejected)
Committed == last' # last
\* this step resolves a commit
Resolves == sumBatches' # sumBatches

\* C1: every commit a strategy loop submits has a batch size in {1,2,3}
\* that does not exceed the remaining budget the engine knew when it chose,
\* also when only 1 or 2 units remain.
C1_BatchWithinBudget ==
  last.rule # "none" =>
    /\ last.count \in {1, 2, 3}
    /\ last.count <= last.remaining

\* a batch of 3 was requested with 2 units left and 2 were sent
C1_Witness ==
  /\ strategy = "hh" /\ last.requested = 3
  /\ last.remaining = 2 /\ last.count = 2

\* C2: budget conservation.  At every point of the loop the batch sizes of
\* the resolved commits sum to totalUnits minus the remaining budget, the
\* remaining budget never increases and it is never negative.
C2_BudgetConservation ==
  /\ [](sumBatches = units(strategy, regime) - Remaining /\ Remaining >= 0)
  /\ [][Remaining' <= Remaining]_vars

\* an episode that spent its whole budget over several commits, the last
\* one smaller than the one requested
C2_Witness ==
  /\ pc = "done" /\ Remaining = 0 /\ sumBatches = units(strategy, regime)
  /\ last.count < 3 /\ last.remaining = last.count

\* C3: a resolved commit on a planet increments exactly one of its four Beta
\* counters by one: the afterWin pair iff the planet's lastOutcome before
\* the observation was a win, the a counter iff the trip survived; the
\* planet's lastOutcome and streak then follow the new observation.
C3_OneCounterPerOutcome ==
  [][(strategy = "hh" /\ Resolves) =>
       LET p == last'.planet
           sv == last'.survived
           pre == S[p]
           post == S'[p]
           dWa == post.afterWin.a - pre.afterWin.a
           dWb == post.afterWin.b - pre.afterWin.b
           dLa == post.afterLoss.a - pre.afterLoss.a
           dLb == post.afterLoss.b - pre.afterLoss.b
       IN /\ {dWa, dWb, dLa, dLb} \subseteq {0, 1}
          /\ dWa + dWb + dLa + dLb = 1
          /\ dWa = 1 <=> (pre.lastOutcome = "true" /\ sv)
          /\ dWb = 1 <=> (pre.lastOutcome = "true" /\ ~sv)
          /\ dLa = 1 <=> (pre.lastOutcome # "true" /\ sv)
          /\ dLb = 1 <=> (pre.lastOutcome # "true" /\ ~sv)
          /\ post.lastOutcome = (IF sv THEN "true" ELSE "false")
          /\ post.streakWins =
               (IF sv THEN (IF pre.lastOutcome = "true" THEN pre.streakWins + 1 ELSE 1)
                ELSE 0)]_vars

\* a planet that lost right after a win: the loss went to afterWin.b and
\* the win before it, the planet's first observation, to afterLoss.a
C3_Witness ==
  /\ strategy = "hh" /\ last.resolved /\ ~last.survived
  /\ S[last.planet].afterWin = [a |-> WARM_PRIOR.a, b |-> WARM_PRIOR.b + 1]
  /\ S[last.planet].afterLoss = [a |-> COLD_PRIOR.a + 1, b |-> COLD_PRIOR.b]

\* the belief state of the drivers
Beliefs == <<S, purgeOffset, purgeConfidence, planetHistory, PLANETS, planetStats>>

\* C4: when a commit fails to return a result, no belief state differs from
\* its value before the policy decision for that call, and the engine issues
\* no further commit in the episode.
C4_FailedCommitLeavesBeliefs ==
  /\ [][(pc # "error" /\ pc' = "error") => Beliefs' = Beliefs]_vars
  /\ [][pc = "error" => ~Committed]_vars

\* the previous step's planet is on a win streak of exactly five and its
\* stay estimate is at or above the stay threshold
hhHot ==
  /\ strategy = "hh" /\ currentPlanet # NULL
  /\ S[currentPlanet].lastOutcome = "true"
  /\ S[currentPlanet].streakWins = 5
  /\ betaMeanAtLeast(S[currentPlanet].afterWin.a, S[currentPlanet].afterWin.b,
                     STAY_THRESHOLD)

usHot ==
  /\ strategy = "us" /\ currentPlanet # NULL
  /\ planetHistory[currentPlanet].lastResult = "true"
  /\ planetHistory[currentPlanet].consecutiveWins = 5
  /\ usScores[currentPlanet] > P(70)

StaysWithMaxBatch ==
  /\ last'.planet = currentPlanet
  /\ last'.count = Min(3, mortiesRemaining)

\* a Purge rule that the code evaluates before the hot-streak rule fires
hhPurgeRuleFires == inTightPurge(step + 1) \/ needPurgeProbe(step + 1)
usPurgeSampleFires ==
  /\ (tripNumber + 1) % 25 = 0 /\ currentPlanet # PURGE
  /\ planetHistory[PURGE].consecutiveWins = 0

C6_SwitchesAfterLoss ==
  [][(/\ strategy = "us" /\ tripNumber >= 3 /\ currentPlanet # NULL
      /\ planetHistory[currentPlanet].lastResult = "false"
      /\ Committed)
     => last'.planet # currentPlanet]_vars

\* C7: in the hot-hand engine, when the previous step's planet did not win
\* and neither Purge rule fires, the planet chosen is one of the other two
\* and the requested batch is 1, whatever the Thompson draws are.
C7_AfterLossThompsonOthers ==
  [][(/\ strategy = "hh" /\ currentPlanet # NULL
      /\ S[currentPlanet].lastOutcome # "true"
      /\ ~hhPurgeRuleFires
      /\ Committed)
     => /\ last'.planet \in PlanetSet \ {currentPlanet}
        /\ last'.requested = 1]_vars

\* after a loss on On-a-Cob the draws sent the engine to Purge, the later
\* of the two candidates
C7_Witness ==
  /\ strategy = "hh" /\ last.rule = "thompson"
  /\ last.prev = ON_A_COB /\ last.planet = PURGE

\* C8: in UltimateStrategy the commit that follows a lost trip sends
\* exactly 1 Morty.
C8_ProbeAfterLoss ==
  [][(/\ strategy = "us" /\ last.resolved /\ ~last.survived
      /\ Committed)
     => last'.count = 1]_vars

\* the streak of planet p as the drivers report it
StreakOf(states, histories, p) ==
  IF strategy = "hh" THEN states[p].streakWins
  ELSE IF histories[p].lastResult = "true"
    THEN histories[p].consecutiveWins
    ELSE -histories[p].consecutiveLosses

Streak(p) == StreakOf(S, planetHistory, p)

\* length of the run of equal outcomes at the end of rr
RECURSIVE runLength(_)
runLength(rr) ==
  IF Len(rr) <= 1 THEN Len(rr)
  ELSE IF rr[Len(rr)] = rr[Len(rr) - 1]
    THEN 1 + runLength(SubSeq(rr, 1, Len(rr) - 1))
    ELSE 1

C10_PurgePhaseModel ==
  /\ [](/\ purgeConfidence \in 0..4
        /\ purgeOffset = NULL <=> purgeConfidence = 0)
  /\ [][Abs(purgeConfidence' - purgeConfidence) <= 1]_vars
  /\ [][(Committed /\ last'.rule = "crest") => purgeConfidence > 0]_vars

\* a crest trip failed at confidence 1: the confidence fell to 0 and the
\* offset reverted to unknown
C10_Witness ==
  /\ strategy = "hh" /\ last.rule = "crest" /\ last.resolved /\ ~last.survived
  /\ purgeConfidence = 0 /\ purgeOffset = NULL

\* C11: whenever the phase offset of the cyclic channel is known it is an
\* integer in [0, 200): the Purge offset of the hot-hand engine after
\* learning and after every recentering, and the offset the wave phase
\* detector returned.
C11_OffsetWithinPeriod ==
  /\ purgeOffset # NULL => purgeOffset \in 0..(PURGE_PERIOD - 1)
  /\ wavePhaseOffset # NoOffset => wavePhaseOffset \in 0..(WAVE_PERIOD - 1)

\* a resolved Purge trip of the hot-hand engine survives inside the probe
\* window of the offset known before it
CorroboratedPurgeTrip ==
  /\ strategy = "hh"
  /\ Committed /\ last'.resolved /\ last'.planet = PURGE /\ last'.survived
  /\ inProbePurge(last'.t)

\* C12: recentering on a corroborating observation nudges the offset toward
\* the observed phase: the circular distance from the new offset to the
\* observed phase is at most the one from the old offset, and the new offset
\* stays within the probe window of the old one.
C12_RecenterTowardObservation ==
  [][CorroboratedPurgeTrip =>
       LET phase == mod(last'.t, PURGE_PERIOD) IN
       /\ distMod(purgeOffset', phase, PURGE_PERIOD)
            <= distMod(purgeOffset, phase, PURGE_PERIOD)
       /\ distMod(purgeOffset', purgeOffset, PURGE_PERIOD) <= PURGE_WINDOW_PROBE]_vars

\* planets with at least one recorded outcome
Observed ==
  IF strategy = "hh" THEN {p \in PlanetSet : S[p].lastOutcome # "null"}
  ELSE {p \in PlanetSet : planetHistory[p].lastResult # "null"}

\* C13: cold start: the first three commits of an episode go to the three
\* planets in round-robin, each planet exactly once and each with batch size
\* 1 (hot-hand engine and UltimateStrategy): after the k-th resolved commit,
\* k <= 3, exactly k planets have an outcome and the batch was 1.
C13_ColdStartRoundRobin ==
  (strategy \in {"hh", "us"} /\ last.resolved /\ last.t <= 3) =>
     /\ last.count = 1
     /\ Cardinality(Observed) = last.t

\* UltimateStrategy stays on the previous planet through the hot-hand rule
usRides == strategy = "us" /\ Committed /\ last'.rule = "hotHand"

\* the batch sizes of the hot-hand rule, by confidence level
RideBatchLevels ==
  [][usRides =>
       LET score == usScores[currentPlanet]
           wins == planetHistory[currentPlanet].consecutiveWins
       IN last'.count =
            IF score >= P(85) /\ wins >= 3 THEN Min(3, last'.remaining)
            ELSE IF score >= P(75) THEN Min(2, last'.remaining)
            ELSE 1]_vars

\* a win streak whose hot-hand probability passes the stay threshold 0.70
\* and is below the medium level 0.75
LowConfidenceStreak ==
  \E w \in 1..LongUnits :
     LET score == hotHandProbability([mkPlanetHistory EXCEPT
                                        !.lastResult = "true", !.consecutiveWins = w])
     IN score > P(70) /\ score < P(75)

\* C14: when riding a hot streak the batch is min(3, remaining) exactly when
\* confidence >= 0.85 and streak >= 3, min(2, remaining) for medium
\* confidence and 1 for low confidence, and each of the three levels occurs.
C14_ThreeBatchLevels == []LowConfidenceStreak /\ RideBatchLevels

\* C14 (amended): a ride sends min(3, remaining) exactly when confidence is
\* >= 0.85 and the streak >= 3 and min(2, remaining) otherwise; confidence
\* after a win is never below 0.75, so the low level does not occur.
C14_TwoBatchLevels ==
  [][usRides =>
       LET score == usScores[currentPlanet]
           wins == planetHistory[currentPlanet].consecutiveWins
       IN /\ score >= P(75)
          /\ last'.count = IF score >= P(85) /\ wins >= 3
                             THEN Min(3, last'.remaining)
                             ELSE Min(2, last'.remaining)]_vars

\* a ride at medium confidence sends two units out of three or more
C14_Witness ==
  /\ strategy = "us" /\ last.rule = "hotHand" /\ last.resolved
  /\ last.count = 2 /\ last.remaining >= 3

\* C15: once the win streak of the current planet reaches the cap the engine
\* sends batch-1 sanity probes, and such probes are occasional: a successful
\* sanity probe is followed by batch 3 on that planet later in the same
\* streak, so the successful sanity probes in a row stay fewer than the wins
\* it takes to trigger one.
C15_SanityProbesOccasional ==
  strategy = "hh" => last.sanityRun < MAX_STREAK_BEFORE_SANITY

\* C16: on every trip after cold start whose number is a multiple of 25, if
\* the previous planet is not Purge and Purge has no current win streak, the
\* action is exactly (Purge, 1); on other trips the rule never selects the
\* action.
C16_PeriodicPurgeSample ==
  [][(strategy = "us" /\ Committed) =>
       LET trip == tripNumber + 1 IN
       /\ (/\ trip > 3 /\ trip % 25 = 0
           /\ currentPlanet # PURGE
           /\ planetHistory[PURGE].consecutiveWins = 0)
            => (last'.planet = PURGE /\ last'.count = 1 /\ last'.rule = "purgeSample")
       /\ trip % 25 # 0 => last'.rule # "purgeSample"]_vars

C16_Witness ==
  /\ strategy = "us" /\ last.rule = "purgeSample" /\ last.resolved
  /\ last.prev # PURGE /\ last.t % 25 = 0

\* WavePredictionStrategy submits a commit past the 30 sampling trips
wpDecides == strategy = "wp" /\ Committed /\ wpCurrentStep >= 30

\* C17: once the wave phase offset is known, past the initial 30 steps,
\* Purge is chosen on every step whose predicted rate is above 0.65 and never
\* on a step whose predicted rate is below 0.35, whatever the statistics of
\* the other planets.
C17_CyclicChannelOverride ==
  [][(wpDecides /\ wavePhaseOffset' # NoOffset) =>
       LET predictedRate == wavePredictPurgeRate(wpCurrentStep, wavePhaseOffset')
       IN /\ predictedRate > 650000 => last'.planet = PURGE
          /\ predictedRate < 350000 => last'.planet # PURGE]_vars

\* Purge is chosen at a predicted peak although it failed more often than
\* the safe planets
C17_Witness ==
  /\ strategy = "wp" /\ last.rule = "peak" /\ last.planet = PURGE /\ last.resolved
  /\ planetStats[PURGE].attempts > planetStats[PURGE].successes
  /\ planetStats[ON_A_COB].attempts = planetStats[ON_A_COB].successes

\* C18: while fewer than 15 Purge observations are recorded the phase
\* detector yields no offset and the policy takes no decision from the
\* predicted-rate rule.
C18_MinimumSampleCount ==
  /\ [](strategy = "wp" /\ Len(purgeHistory) < 15 => wavePhaseOffset = NoOffset)
  /\ [][(strategy = "wp" /\ Committed /\ Len(purgeHistory) < 15) =>
          /\ wavePhaseOffset' = NoOffset
          /\ last'.rule \in {"sample", "fallback"}]_vars

\* a decision past the sampling trips, taken without offset
C18_Witness ==
  /\ strategy = "wp" /\ last.rule = "fallback" /\ last.resolved
  /\ Len(purgeHistory) < 15 /\ wavePhaseOffset = NoOffset

\* C19: once a phase offset is known the predicted rate of the current step
\* is a defined rate in [0, 1]: the cycle position is in [0, 200) and the
\* bucket index of the table-based predictor is in 0..9.
C19_PredictedRateDefined ==
  /\ (strategy = "wp" /\ wavePhaseOffset # NoOffset) =>
        /\ wavePosition(wpCurrentStep, wavePhaseOffset) \in 0..(WAVE_PERIOD - 1)
        /\ wavePredictPurgeRate(wpCurrentStep, wavePhaseOffset) \in 0..1000000
  /\ (strategy = "ep" /\ phaseOffset # NULL) =>
        /\ cyclePosition(wpCurrentStep, phaseOffset)
             \in 0..(PATTERN_LENGTH * BUCKET_SIZE - 1)
        /\ bucketIndexOf(wpCurrentStep, phaseOffset) \in 0..(PATTERN_LENGTH - 1)
        /\ epPredictPurgeRate(wpCurrentStep, phaseOffset) \in 0..100

\* the response to this step's commit breaks the contract: it reports a
\* negative citadel, or a citadel that is not the previous one minus the
\* batch requested
BreachReported ==
  /\ strategy \in {"hh", "us"} /\ Resolves
  /\ \/ mortiesRemaining' < 0
     \/ mortiesRemaining' # mortiesRemaining - last'.count

\* C20: contract breaches by the outcome service are fatal: on a response
\* that reports a negative remaining budget or a sent count other than the
\* batch requested the engine aborts the episode, it neither continues nor
\* ends the episode as if it had completed.
C20_BreachIsFatal ==
  /\ [][BreachReported => pc' = "error"]_vars
  /\ [](pc = "done" => mortiesRemaining = 0)

\* C21: every Gamma sampler rejects a shape parameter <= 0 with an error
\* instead of returning a value, so that no Beta sample is produced from a
\* non-positive alpha or beta.
C21_SamplerRejectsNonPositiveShape ==
  (sampled # NoSample /\ (shapeA <= 0 \/ shapeB <= 0)) => sampled.threw

\* the four Beta counters of a PlanetState
counters(st) == <<st.afterWin.a, st.afterWin.b, st.afterLoss.a, st.afterLoss.b>>

\* C22: both shape parameters passed to the Beta sampler are at least 1 in
\* every reachable state.  The afterWin / afterLoss counters of the hot-hand
\* engine start at the priors (7,3) / (3,7) and never decrease; the runner's
\* alpha = succ + 1 and beta = fail + 1 have succ and fail never negative
\* under any sequence of decays and updates.
C22_BetaShapesAtLeastOne ==
  /\ [](\A p \in PlanetSet :
          /\ S[p].afterWin.a >= WARM_PRIOR.a /\ S[p].afterWin.b >= WARM_PRIOR.b
          /\ S[p].afterLoss.a >= COLD_PRIOR.a /\ S[p].afterLoss.b >= COLD_PRIOR.b
          /\ \A i \in 1..4 : counters(S[p])[i] >= 1)
  /\ [][\A p \in PlanetSet, i \in 1..4 : counters(S'[p])[i] >= counters(S[p])[i]]_vars
  /\ [](\A p \in PlanetSet :
          /\ PLANETS[p].succ >= 0 /\ PLANETS[p].fail >= 0
          /\ dtAlpha(PLANETS[p]) >= SCALE /\ dtBeta(PLANETS[p]) >= SCALE)

\* the runner after updates and decays: a success count that has decayed
\* below one observation next to a planet with a recorded failure
C22_Witness ==
  /\ strategy = "dt"
  /\ \E p \in PlanetSet : PLANETS[p].succ > 0 /\ PLANETS[p].succ < SCALE
  /\ \E q \in PlanetSet : PLANETS[q].fail > 0

\* the step / trip index the running driver's policy uses
stepIndex ==
  IF strategy = "hh" THEN step
  ELSE IF strategy = "us" THEN tripNumber
  ELSE IF strategy = "dt" THEN steps
  ELSE osCurrentStep

\* C23: the step counter advances by exactly one per round-trip to the
\* outcome service: after n resolved commits the index the policy uses has
\* increased by exactly n, in every driver loop, a loop iteration that
\* performs several commits counting each of them.
C23_StepPerRoundTrip ==
  pc # "error" => stepIndex = service.steps_taken

\* results folded into the belief state of the hot-hand engine: every
\* learning update adds one to one counter
observationsFolded ==
  LET total(p) == S[p].afterWin.a + S[p].afterWin.b + S[p].afterLoss.a + S[p].afterLoss.b
      prior == WARM_PRIOR.a + WARM_PRIOR.b + COLD_PRIOR.a + COLD_PRIOR.b
  IN total(ON_A_COB) + total(CRONENBERG) + total(PURGE) - 3 * prior

\* this step submits a portal call
Submits == outstanding' > outstanding

\* C24: at most one outcome-service call is outstanding at any time, and the
\* policy decision for commit n+1 is computed only after the result of
\* commit n has been received and folded into the belief state: no two
\* commits are in flight and no decision is made on a belief state missing
\* the previous result.
C24_OneCallOutstanding ==
  /\ [](outstanding \in {0, 1})
  /\ [][Submits => (outstanding = 0 /\ (last = NoCommit \/ last.resolved))]_vars
  /\ [][(Submits /\ strategy = "hh") => observationsFolded = service.steps_taken]_vars
  /\ [][(~last.resolved /\ last'.resolved) =>
          /\ outstanding' = outstanding - 1
          /\ strategy = "hh" => S'[last.planet] = hhLearn(S[last.planet], last'.survived)
          /\ strategy = "dt" => PLANETS' = observe(PLANETS, last.planet, last'.survived)]_vars

\* the second commit of an episode has been submitted after the first one
\* was resolved and counted, and is pending
C24_Witness ==
  /\ outstanding = 1 /\ ~last.resolved
  /\ service.steps_taken = 1
  /\ strategy = "hh" => observationsFolded = 1

\* C25: termination.  Against a service that subtracts the submitted batch
\* size on every commit and never fails, the episode loop ends after
\* finitely many commits, at most totalUnits; it ends exactly when the
\* remaining budget is 0, and no commit is issued once the budget is 0.
C25_EpisodeTerminates ==
  /\ <>(pc = "done")
  /\ [](service.steps_taken <= units(strategy, regime))
  /\ [](pc = "done" => Remaining = 0)
  /\ [][(pc = "run" /\ Remaining > 0) => pc' = "run"]_vars
  /\ [][Remaining = 0 => ~Committed]_vars

\* an episode that ended after as many commits as it had units
C25_Witness ==
  /\ pc = "done" /\ Remaining = 0
  /\ service.steps_taken = units(strategy, regime)
  /\ last.resolved /\ last.remaining = 1

\* outcomes recorded for a planet by UltimateStrategy (recentResults keeps
\* the latest five)
usObservations(p) == Len(planetHistory[p].recentResults)

\* the decision UltimateStrategy takes next
usDecision == choosePlanetAndCount(currentPlanet, mortiesRemaining, tripNumber + 1)

\* C26: tie-break.  When the policy compares the planets and two of them
\* have equal point estimates that are the maximum, it selects the one with
\* more accumulated observations, not the first one in a fixed planet order.
C26_TieBreakByObservations ==
  (strategy = "us" /\ pc = "run" /\ mortiesRemaining > 0 /\ usDecision.rule = "switch") =>
    \A q \in PlanetSet :
      usScores[q] = usScores[usDecision.planet] =>
        usObservations(q) <= usObservations(usDecision.planet)

\* C27: Thompson selection picks the maximum draw: among the candidate
\* planets sampled at a step, the planet chosen is one whose draw is greater
\* than or equal to every other candidate's draw, for all combinations of
\* draw values.
C27_ThompsonPicksMaximum ==
  /\ (strategy = "hh" /\ pc = "run" /\ mortiesRemaining > 0 /\ hhSamples(step + 1)) =>
       \A draw \in hhDraws :
         LET candidates == otherPlanets(currentPlanet)
             planet == hhChoose(step + 1, draw).planet
         IN /\ \E i \in 1..Len(candidates) : candidates[i] = planet
            /\ \A i \in 1..Len(candidates) : draw[candidates[i]] <= draw[planet]
  /\ (strategy = "dt" /\ pc = "run" /\ citadel > 0) =>
       \A draw \in Draws :
         LET td == thompsonDraw(draw)
         IN /\ td.theta = thetaOf(draw[td.pick])
            /\ \A p \in PlanetSet : thetaOf(draw[p]) <= td.theta

\* the hot-hand engine has sampled after a loss and committed to the later
\* of the two candidates, whose draw was strictly the higher one; it is
\* about to sample again
C27_Witness ==
  /\ strategy = "hh" /\ last.rule = "thompson" /\ last.resolved
  /\ last.planet = otherPlanets(last.prev)[2]
  /\ pc = "run" /\ mortiesRemaining > 0 /\ hhSamples(step + 1)

\* betaMean(x.a, x.b) <= betaMean(y.a, y.b), compared on the rationals
meanAtMost(x, y) == x.a * (y.a + y.b) <= y.a * (x.a + x.b)

\* C28: posterior monotonicity.  For any planet and any reachable counters,
\* folding one more success into the afterWin (resp. afterLoss) posterior
\* with failures held fixed does not decrease its mean a/(a+b), and folding
\* one more failure with successes held fixed does not increase it.
C28_PosteriorMonotone ==
  [][(strategy = "hh" /\ Resolves) =>
       \A p \in PlanetSet :
         IF last'.survived
           THEN /\ S'[p].afterWin.b = S[p].afterWin.b
                /\ S'[p].afterLoss.b = S[p].afterLoss.b
                /\ meanAtMost(S[p].afterWin, S'[p].afterWin)
                /\ meanAtMost(S[p].afterLoss, S'[p].afterLoss)
           ELSE /\ S'[p].afterWin.a = S[p].afterWin.a
                /\ S'[p].afterLoss.a = S[p].afterLoss.a
                /\ meanAtMost(S'[p].afterWin, S[p].afterWin)
                /\ meanAtMost(S'[p].afterLoss, S[p].afterLoss)]_vars

\* a planet both of whose posteriors have had a success and a failure
\* folded in
C28_Witness ==
  /\ strategy = "hh"
  /\ \E p \in PlanetSet :
       /\ S[p].afterWin.a > WARM_PRIOR.a /\ S[p].afterWin.b > WARM_PRIOR.b
       /\ S[p].afterLoss.a > COLD_PRIOR.a /\ S[p].afterLoss.b > COLD_PRIOR.b

\* the planet is on a win (resp. loss) streak of length n
winStreak(p, n) ==
  planetHistory[p].lastResult = "true" /\ planetHistory[p].consecutiveWins = n
lossStreak(p, n) ==
  planetHistory[p].lastResult = "false" /\ planetHistory[p].consecutiveLosses = n

\* C29: the empirical hot-hand confidence table is monotone: the value for
\* a win streak of length n + 1 is at least the value for length n, the
\* value for a loss streak does not increase as the loss streak grows, every
\* win-streak value is strictly greater than the loss-streak value of the
\* same length, and the value is the neutral 0.5 exactly when the planet has
\* no recorded outcome.
C29_TableMonotone ==
  /\ [][\A p \in PlanetSet :
          /\ (planetHistory[p].lastResult = "true" /\ planetHistory'[p].lastResult = "true")
               => getHotHandProbability(p)' >= getHotHandProbability(p)
          /\ (planetHistory[p].lastResult = "false" /\ planetHistory'[p].lastResult = "false")
               => getHotHandProbability(p)' <= getHotHandProbability(p)]_vars
  /\ [](\A p \in PlanetSet, q \in PlanetSet, n \in 1..MaxObservations :
          (winStreak(p, n) /\ lossStreak(q, n))
            => getHotHandProbability(p) > getHotHandProbability(q))
  /\ [](\A p \in PlanetSet :
          getHotHandProbability(p) = P(50) <=> planetHistory[p].recentResults = <<>>)

\* a win streak and a loss streak of five, the last rows of both halves of
\* the table, next to each other
C29_Witness ==
  /\ strategy = "usTable"
  /\ winStreak(ON_A_COB, 5) /\ lossStreak(CRONENBERG, 5)
  /\ getHotHandProbability(ON_A_COB) = P(93)
  /\ getHotHandProbability(CRONENBERG) = P(10)

\* failed commits on the scripted planet so far
failuresOnA ==
  IF strategy = "hh"
    THEN (S[channelA].afterWin.b - WARM_PRIOR.b) + (S[channelA].afterLoss.b - COLD_PRIOR.b)
  ELSE IF planetHistory[channelA].lastResult = "false"
    THEN planetHistory[channelA].consecutiveLosses
  ELSE 0

\* the latest commit was the k-th failure of the scripted planet, and the
\* engine has been on that planet ever since its first failure
stuckSinceChange(k) ==
  /\ failuresOnA = k
  /\ last.resolved /\ ~last.survived /\ last.planet = channelA
  /\ k > 1 => last.prev = channelA

\* the next decision of the engine can be the scripted planet
nextCanBeA ==
  /\ pc = "run" /\ mortiesRemaining > 0
  /\ IF strategy = "hh"
       THEN \E draw \in hhDraws : hhChoose(step + 1, draw).planet = channelA
       ELSE usDecision.planet = channelA

\* C30: regime-change scenario.  In a 20-unit episode where planet A
\* succeeds on each of its first 10 commits and fails on every commit after
\* that, the engine chooses a planet other than A within 2 steps of A's
\* first failure, whatever the outcomes on the other two planets are: the
\* episode goes on after the first failure, and a second consecutive failure
\* on A is followed by a commit elsewhere.
C30_RegimeChangeSwitch ==
  /\ stuckSinceChange(1) => mortiesRemaining > 0
  /\ stuckSinceChange(2) => (mortiesRemaining > 0 /\ ~nextCanBeA)

\* C31: frame of a resolved commit on planet p.  The belief state of every
\* other planet (Beta counters, lastOutcome and streak in the hot-hand
\* engine; the PlanetHistory in UltimateStrategy) is unchanged, and the Purge
\* phase model (offset, confidence) is unchanged unless p is Purge.
C31_ResolvedCommitFrame ==
  [][(strategy \in {"hh", "us"} /\ Resolves) =>
       LET p == last'.planet IN
       /\ \A q \in PlanetSet \ {p} : S'[q] = S[q] /\ planetHistory'[q] = planetHistory[q]
       /\ p # PURGE => (purgeOffset' = purgeOffset /\ purgeConfidence' = purgeConfidence)]_vars

\* a commit on a planet other than Purge resolved with a win, after both
\* other planets had recorded an outcome
C31_Witness ==
  /\ strategy = "hh" /\ last.resolved /\ last.survived
  /\ last.planet # PURGE
  /\ \A q \in PlanetSet : S[q].lastOutcome # "null"

\* C32: WavePredictionStrategy detects the wave phase in every episode that
\* runs for at least 60 steps, under every outcome sequence: the number of
\* recorded Purge observations reaches 15 and wavePhaseOffset becomes
\* non-null at some step.  Both are kept once reached, so they hold when the
\* episode is over.
C32_WavePhaseDetected ==
  (strategy = "wp" /\ pc = "done" /\ wpCurrentStep >= 60) =>
    (Len(purgeHistory) >= 15 /\ wavePhaseOffset # NoOffset)

\* C33: in the hot-hand engine, while the Purge offset is unknown, Purge is
\* probed with batch 1 at least once in every window of 25 consecutive
\* trips, whatever streak is being ridden on another planet.  A phase probe
\* is a batch-1 commit on Purge and lastPurgeProbe is the trip of the latest
\* one; every trip chosen under an unknown offset is a phase probe or comes
\* less than 25 trips after one.
C33_PhaseProbeEvery25 ==
  /\ [][(strategy = "hh" /\ Committed /\ last'.rule = "phaseProbe") =>
          /\ last'.planet = PURGE /\ last'.requested = 1 /\ last'.count = 1
          /\ lastPurgeProbe' = last'.t]_vars
  /\ [][(strategy = "hh" /\ Committed /\ last'.rule # "phaseProbe") =>
          lastPurgeProbe' = lastPurgeProbe]_vars
  /\ [][(strategy = "hh" /\ Committed /\ purgeOffset = NULL
          /\ last'.rule # "phaseProbe") =>
          /\ lastPurgeProbe # NegInfinity
          /\ last'.t - lastPurgeProbe < PURGE_PROBE_INTERVAL]_vars

\* the second phase probe of an episode, 25 trips after the first, taken
\* from a planet whose latest trip was a win
C33_Witness ==
  /\ strategy = "hh" /\ last.rule = "phaseProbe" /\ last.resolved
  /\ last.t = 1 + PURGE_PROBE_INTERVAL
  /\ last.prev \in PlanetSet \ {PURGE}
  /\ S[last.prev].lastOutcome = "true" /\ S[last.prev].streakWins >= 1

\* C34: in the hot-hand engine the first commit of every episode is a
\* batch-1 commit on Purge, the phase probe, and the "Initial probe" branch
\* guarded by currentPlanet === null is taken in no execution.
C34_FirstCommitIsPhaseProbe ==
  (strategy = "hh" /\ last # NoCommit) =>
    /\ last.rule # "initial"
    /\ last.t = 1 =>
         /\ last.prev = NULL
         /\ last.rule = "phaseProbe"
         /\ last.planet = PURGE /\ last.requested = 1 /\ last.count = 1

\* the first commit of an episode has resolved
C34_Witness ==
  /\ strategy = "hh" /\ last.t = 1 /\ last.resolved
  /\ last.planet = PURGE /\ currentPlanet = PURGE /\ step = 1

\* the trip about to be chosen is within d trips, on the circle of 200, of a
\* known Purge offset
withinOfOffset(d) ==
  /\ purgeOffset # NULL
  /\ distMod(mod(step + 1, 200), purgeOffset, 200) <= d

\* C35: in the hot-hand engine a batch of 3 is requested only (a) on a trip
\* within the tight crest window (circular distance <= 2) of a known Purge
\* offset with purgeConfidence >= 2, or (b) on the previous step's planet
\* when its last outcome was a win, its after-win posterior mean is >= 0.72
\* and its win streak is below 6 or the trip is inside the Purge probe
\* window (distance <= 4); in every other state the requested batch is 1.
C35_BatchThreeOnlyOnCrestOrStreak ==
  [][(strategy = "hh" /\ Committed) =>
       LET crest == withinOfOffset(2) /\ purgeConfidence >= 2
           streak ==
             /\ currentPlanet # NULL /\ last'.planet = currentPlanet
             /\ S[currentPlanet].lastOutcome = "true"
             /\ 100 * S[currentPlanet].afterWin.a >=
                  72 * (S[currentPlanet].afterWin.a + S[currentPlanet].afterWin.b)
             /\ (S[currentPlanet].streakWins < 6 \/ withinOfOffset(4))
       IN /\ last'.requested \in {1, 3}
          /\ last'.requested = 3 => (crest \/ streak)]_vars

\* a crest commit of batch 3 resolved with the third consecutive Purge win
C35_Witness ==
  /\ strategy = "hh" /\ last.rule = "crest" /\ last.requested = 3
  /\ last.resolved /\ purgeConfidence >= 3

\* the counts of planet p after one decay of PLANETS and an increment of
\* plus thousandths on the success side or the failure side
decayedOnce(p, succPlus, failPlus) ==
  [succ |-> (PLANETS[p].succ * GAMMA[p]) \div 1000 + succPlus,
   fail |-> (PLANETS[p].fail * GAMMA[p]) \div 1000 + failPlus]

\* C36: discounted Thompson runner.  On every loop iteration whose step
\* counter is a multiple of 10 the runner sends exactly 1 Morty to each of
\* planets 0, 1, 2 in that order, stopping early only when the budget reaches
\* 0; on every other iteration it sends 3 only if the drawn team-success
\* probability exceeds 0.88 and at least 3 units remain, and 1 otherwise;
\* every commit is preceded by exactly one decay of all planets' counts and,
\* once it resolves, followed by exactly one unit increment of the committed
\* planet's success or failure count.
C36_ProbeRoundAndBatch ==
  /\ [][(strategy = "dt" /\ Committed /\ last'.t % 10 = 0) =>
          /\ last'.rule = "probeRound" /\ last'.count = 1
          /\ pc = "run" => (last'.planet = 0 /\ last'.t = steps + 1)
          /\ pc = "probe" =>
               (last'.planet = last.planet + 1 /\ last'.t = last.t /\ last.resolved)
          /\ last'.resolved => (pc' = "probe" <=> (last'.planet < 2 /\ citadel' > 0))]_vars
  /\ [][(strategy = "dt" /\ pc = "probe") => (Committed /\ steps' = steps)]_vars
  /\ [][(strategy = "dt" /\ Committed /\ last'.t % 10 # 0) =>
          /\ last'.rule = "thompsonDraw" /\ last'.t = steps + 1 /\ pc = "run"
          /\ last'.count =
               (IF /\ 1000 * 1000 * 1000
                        - (1000 - last'.theta) * (1000 - last'.theta) * (1000 - last'.theta)
                      > 880 * 1000 * 1000
                   /\ citadel >= 3
                  THEN 3 ELSE 1)]_vars
  /\ [][(strategy = "dt" /\ Committed) =>
          \A p \in PlanetSet :
            PLANETS'[p] =
              IF last'.resolved /\ p = last'.planet
                THEN (IF last'.survived THEN decayedOnce(p, 1000, 0)
                                        ELSE decayedOnce(p, 0, 1000))
                ELSE decayedOnce(p, 0, 0)]_vars
  /\ [][(strategy = "dt" /\ ~Committed) => PLANETS' = PLANETS]_vars

\* the third commit of a probe round has resolved: iteration 10 sent one
\* Morty to each planet, and the counts of every planet have decayed
C36_Witness ==
  /\ strategy = "dt" /\ last.rule = "probeRound" /\ last.resolved
  /\ last.planet = 2 /\ last.t = 10 /\ pc = "run"
  /\ service.steps_taken = 12
  /\ \A p \in PlanetSet : PLANETS[p].succ + PLANETS[p].fail > 0
  /\ PLANETS[1].succ + PLANETS[1].fail < 1000

C38_HistoryInvariant ==
  \A p \in PlanetSet :
    LET h == planetHistory[p] IN
    /\ h.consecutiveWins >= 0 /\ h.consecutiveLosses >= 0
    /\ h.consecutiveWins = 0 \/ h.consecutiveLosses = 0
    /\ h.consecutiveWins > 0 <=> h.lastResult = "true"
    /\ h.consecutiveLosses > 0 <=> h.lastResult = "false"
    /\ Len(h.recentResults) <= 5
    /\ h.lastResult # "null" =>
         /\ Len(h.recentResults) >= 1
         /\ h.recentResults[Len(h.recentResults)] = (h.lastResult = "true")

\* a planet updated seven times or more: its window is full, it holds a win
\* and the planet is on a loss streak
C38_Witness ==
  /\ strategy = "usTable"
  /\ \E p \in TablePlanets :
        /\ tripNumber >= 7
        /\ \A q \in TablePlanets \ {p} : planetHistory[q].lastResult = "null"
        /\ Len(planetHistory[p].recentResults) = 5
        /\ planetHistory[p].consecutiveLosses >= 2
        /\ \E i \in 1..5 : planetHistory[p].recentResults[i]

\* C39: in UltimateStrategy, from the fourth trip on every planet has a
\* recorded last outcome, so neither the neutral 0.5 estimate nor
\* predictPurgeRate enters a data-driven decision, and after a win on the
\* previous planet the engine stays on it unless the periodic Purge sample
\* fires; the stay is never the batch-1 "lower confidence" one (the score of
\* the planet is at least 0.75, the batch at least min(2, remaining)).
C39_DecisionsUseRecordedOutcomes ==
  [][(strategy = "us" /\ tripNumber >= 3 /\ Committed) =>
       /\ \A p \in PlanetSet : planetHistory[p].lastResult # "null"
       /\ \A p \in PlanetSet : usScores[p] # P(50)
       /\ planetHistory[currentPlanet].lastResult = "true" =>
            \/ usPurgeSampleFires /\ last'.planet = PURGE /\ last'.requested = 1
            \/ /\ ~usPurgeSampleFires
               /\ last'.planet = currentPlanet
               /\ usScores[currentPlanet] >= P(75)
               /\ last'.requested >= Min(2, mortiesRemaining)]_vars

\* the fourth trip stayed on Purge, which had won the third, with a batch
\* of 2
C39_Witness ==
  /\ strategy = "us" /\ last.t = 4 /\ last.resolved
  /\ last.rule = "hotHand" /\ last.planet = PURGE /\ last.prev = PURGE
  /\ last.requested = 2

====
